---- MODULE Spec2Model ----
(***************************************************************************)
(* A model of myslam::backend::Problem (Ch8/src/backend/problem.cc): the   *)
(* factor-graph store, the ordering, the threaded Hessian assembly and the *)
(* two trust-region drivers (Levenberg-Marquardt and Dog-Leg).             *)
(***************************************************************************)
EXTENDS Integers, Sequences, FiniteSets, TLC

\* ------------------------------------------------------------------ bounds
NumVertices == 2
NumEdges == 2
MaxIndex == 4
MaxPriorRows == 15

VertexIds == 1..NumVertices
EdgeIds == 1..NumEdges

\* ------------------------------------------- the Vertex and Edge interfaces
\* Vertex::TypeInfo(): the string tag of a vertex object.
TypeInfo(v) ==
    CASE v % 4 = 1 -> "VertexPose"
      [] v % 4 = 2 -> "VertexInverseDepth"
      [] v % 4 = 3 -> "VertexSpeedBias"
      [] OTHER -> "VertexOther"

\* Vertex::LocalDimension().
LocalDimension(v) ==
    CASE TypeInfo(v) = "VertexPose" -> 6
      [] TypeInfo(v) = "VertexSpeedBias" -> 9
      [] OTHER -> 1

\* Edge::Verticies(): the ordered list of the vertices of an edge object.
Verticies(e) ==
    IF e % 2 = 1 THEN << ((e - 1) % NumVertices) + 1 >>
    ELSE << ((e - 1) % NumVertices) + 1, (e % NumVertices) + 1 >>

VerticiesSet(e) == { Verticies(e)[i] : i \in 1..Len(Verticies(e)) }

IsPoseVertex(v) == TypeInfo(v) \in {"VertexPose", "VertexSpeedBias"}

IsLandmarkVertex(v) == TypeInfo(v) \in {"VertexPointXYZ", "VertexInverseDepth"}

\* ------------------------------------------------------------------- state
VARIABLES
    problemType_,           \* "GENERIC_PROBLEM" | "SLAM_PROBLEM"
    verticies_,             \* keys of the vertex map
    edges_,                 \* keys of the edge map
    vertexToEdge_,          \* the incidence multimap: [vertex id][edge id] -> count
    idx_pose_vertices_,     \* keys of the pose index
    idx_landmark_vertices_, \* keys of the landmark index
    ordering_id_,           \* Vertex::ordering_id_ of every vertex object
    fixed_,                 \* the vertex objects whose IsFixed() is true
    ordering_poses_,
    ordering_landmarks_,
    ordering_generic_,
    H_prior_,               \* square matrix, [row][col], indices from 0
    b_prior_,               \* vector, indices from 0
    edges_idx_,             \* the edge ids MakeHessianMulti has pushed so far
    multi_H_,               \* the matrix the workers add into
    multi_b_,               \* the vector the workers add into
    Hessian_,
    b_,
    delta_x_,
    asm_pc,                 \* MakeHessianMulti: "idle" | "forked" | "joined"
    thd_ops,                \* per worker: the memory accesses it still has to make
    thd_reg,                \* per worker: the block it has loaded and not yet stored
    ub,                     \* undefined behaviour has been executed
    lastOp,                 \* the last call made on the graph store
    lastArg,                \* its argument (a vertex id or an edge id)
    lastRet,                \* its return value
    lastRemoved,            \* the edges the last call erased from edges_
    solve_pc,               \* where the running Solve call stands
    solveType,              \* Solve: the argument type
    iterations,             \* Solve: the argument iterations
    solveRet,               \* Solve: the value returned
    iter,                   \* driver local
    stop,                   \* driver local
    false_cnt,              \* driver local
    oneStepSuccess,         \* driver local
    last_chi,               \* driver local (last_chi_ in SolveLM)
    currentChi_,
    currentLambda_,         \* [num, den, exp]: (num / den) * 2^exp
    ni_,
    currentRadius_,         \* [num, den]: num / den
    alpha_,                 \* [num, den], or NaN
    beta_,                  \* [num, den]
    h_gn_,
    h_dl_,
    parameters_,            \* Vertex::parameters_ of every vertex object
    parameters_backup_,     \* Vertex::parameters_backup_ of every vertex object
    b_prior_backup_,
    err_prior_,
    err_prior_backup_,
    Jt_prior_inv_,
    tries,                  \* the tries (solve, update, decision) made by this Solve call
    outerTries,             \* the tries made in the current outer iteration
    snap,                   \* the values UpdateStates found, kept for comparison
    linearized,             \* the vertex values, H and b of the last MakeHessian
    tempChi,                \* the local tempChi of the last IsGoodStepInLM / IsGoodStepInDogLeg
    sinceAccept             \* SolveLM: the rejections since the last accepted try (or the start),
                            \* and the lambda that try (or ComputeLambdaInitLM) left

gvars == << problemType_, verticies_, edges_, vertexToEdge_, idx_pose_vertices_,
            idx_landmark_vertices_, ordering_id_, H_prior_, b_prior_ >>
ovars == << fixed_, ordering_poses_, ordering_landmarks_, ordering_generic_ >>
avars == << edges_idx_, multi_H_, multi_b_, Hessian_, b_, delta_x_, asm_pc,
            thd_ops, thd_reg, ub >>
hvars == << lastOp, lastArg, lastRet, lastRemoved >>
dvars == << solve_pc, solveType, iterations, solveRet, iter, stop, false_cnt,
            oneStepSuccess, last_chi, tries, outerTries, snap,
            linearized, tempChi, sinceAccept >>
tvars == << currentChi_, currentLambda_, ni_, currentRadius_, alpha_, beta_, h_gn_, h_dl_ >>
pvars == << parameters_, parameters_backup_, b_prior_backup_, err_prior_,
            err_prior_backup_, Jt_prior_inv_ >>
svars == << dvars, tvars, pvars >>
vars == << gvars, ovars, avars, hvars, svars >>

\* ---------------------------------------------------------- dense matrices
\* The one element of a set.  Only({ F(x) : x \in {e} }) is F(e) with e
\* computed once, as a local of the code is.
Only(S) == CHOOSE r \in S : TRUE

ZeroVec(n) == [r \in 0..(n - 1) |-> 0]
ZeroMat(n) == [r \in 0..(n - 1) |-> [c \in 0..(n - 1) |-> 0]]
Rows(M) == Cardinality(DOMAIN M)

\* conservativeResize(size, size) followed by zeroing the new rows and columns.
ResizeMat(M, size) ==
    [r \in 0..(size - 1) |-> [c \in 0..(size - 1) |->
        IF r < Rows(M) /\ c < Rows(M) THEN M[r][c] ELSE 0]]
ResizeVec(x, size) ==
    [r \in 0..(size - 1) |-> IF r < Rows(x) THEN x[r] ELSE 0]

H_prior_rows == Rows(H_prior_)

IndexSize == LET RECURSIVE Sum(_)
                 Sum(S) == IF S = {} THEN 0
                           ELSE LET p == CHOOSE q \in S : TRUE
                                IN vertexToEdge_[p[1]][p[2]] + Sum(S \ {p})
             IN Sum(VertexIds \X EdgeIds)

\* A GetConnectedEdges that walks the whole incidence index instead of the
\* equal_range of the vertex.
GetConnectedEdges_AllKeys(v) ==
    [e \in EdgeIds |-> IF e \in edges_ /\ (\E u \in VertexIds : vertexToEdge_[u][e] > 0)
                       THEN 1 ELSE 0]

\* Problem::GetConnectedEdges: the returned vector as a bag, edge id -> copies.
GetConnectedEdges(v) ==
    [e \in EdgeIds |-> IF e \in edges_ THEN vertexToEdge_[v][e] ELSE 0]

\* Problem::ResizePoseHessiansWhenAddingPose: the new size of H_prior_, b_prior_.
ResizePoseHessiansWhenAddingPose(v) == H_prior_rows + LocalDimension(v)

\* The members and locals of the drivers while no Solve call is made.
NoSolve ==
    /\ solve_pc = "none"
    /\ solveType = 0
    /\ iterations = 0
    /\ solveRet = TRUE
    /\ iter = 0
    /\ stop = FALSE
    /\ false_cnt = 0
    /\ oneStepSuccess = FALSE
    /\ last_chi = 0
    /\ tries = 0
    /\ outerTries = 0
    /\ snap = << >>
    /\ linearized = << >>
    /\ tempChi = 0
    /\ sinceAccept = [k |-> 0, lambda |-> [num |-> 0, den |-> 1, exp |-> 0]]
    /\ currentChi_ = 0
    /\ currentLambda_ = [num |-> 0, den |-> 1, exp |-> 0]
    /\ ni_ = 2
    /\ currentRadius_ = [num |-> 0, den |-> 1]
    /\ alpha_ = [num |-> 0, den |-> 1]
    /\ beta_ = [num |-> 0, den |-> 1]
    /\ h_gn_ = ZeroVec(0)
    /\ h_dl_ = ZeroVec(0)
    /\ parameters_ = << >>
    /\ parameters_backup_ = << >>
    /\ b_prior_backup_ = ZeroVec(0)
    /\ err_prior_ = ZeroVec(0)
    /\ err_prior_backup_ = ZeroVec(0)
    /\ Jt_prior_inv_ = ZeroMat(0)

Init ==
    /\ problemType_ \in {"GENERIC_PROBLEM", "SLAM_PROBLEM"}
    /\ verticies_ = {}
    /\ edges_ = {}
    /\ vertexToEdge_ = [v \in VertexIds |-> [e \in EdgeIds |-> 0]]
    /\ idx_pose_vertices_ = {}
    /\ idx_landmark_vertices_ = {}
    /\ ordering_id_ = [v \in VertexIds |-> -1]
    /\ H_prior_ = ZeroMat(0)
    /\ b_prior_ = ZeroVec(0)
    /\ fixed_ = {}
    /\ ordering_poses_ = 0
    /\ ordering_landmarks_ = 0
    /\ ordering_generic_ = 0
    /\ edges_idx_ = << >>
    /\ multi_H_ = ZeroMat(0)
    /\ multi_b_ = ZeroVec(0)
    /\ Hessian_ = ZeroMat(0)
    /\ b_ = ZeroVec(0)
    /\ delta_x_ = ZeroVec(0)
    /\ asm_pc = "idle"
    /\ thd_ops = << >>
    /\ thd_reg = << >>
    /\ ub = FALSE
    /\ lastOp = "none"
    /\ lastArg = 0
    /\ lastRet = TRUE
    /\ lastRemoved = {}
    /\ NoSolve

\* An AddVertex that grows the prior before it looks the id up.
AddVertex_ResizeFirst(v) ==
    /\ UNCHANGED svars
    /\ lastOp' = "AddVertex"
    /\ lastArg' = v
    /\ lastRemoved' = {}
    /\ problemType_ = "SLAM_PROBLEM" /\ IsPoseVertex(v)
         => ResizePoseHessiansWhenAddingPose(v) <= MaxPriorRows
    /\ IF problemType_ = "SLAM_PROBLEM" /\ IsPoseVertex(v)
       THEN /\ H_prior_' = ResizeMat(H_prior_, ResizePoseHessiansWhenAddingPose(v))
            /\ b_prior_' = ResizeVec(b_prior_, ResizePoseHessiansWhenAddingPose(v))
       ELSE UNCHANGED << H_prior_, b_prior_ >>
    /\ verticies_' = verticies_ \cup {v}
    /\ lastRet' = (v \notin verticies_)
    /\ UNCHANGED << problemType_, edges_, vertexToEdge_, idx_pose_vertices_,
                    idx_landmark_vertices_, ordering_id_, ovars, avars >>

\* Problem::AddVertex
AddVertex(v) ==
    /\ UNCHANGED svars
    /\ lastOp' = "AddVertex"
    /\ lastArg' = v
    /\ lastRemoved' = {}
    /\ IF v \in verticies_
       THEN /\ lastRet' = FALSE
            /\ UNCHANGED << gvars, ovars, avars >>
       ELSE /\ problemType_ = "SLAM_PROBLEM" /\ IsPoseVertex(v)
                => ResizePoseHessiansWhenAddingPose(v) <= MaxPriorRows
            /\ verticies_' = verticies_ \cup {v}
            /\ IF problemType_ = "SLAM_PROBLEM" /\ IsPoseVertex(v)
               THEN /\ H_prior_' = ResizeMat(H_prior_, ResizePoseHessiansWhenAddingPose(v))
                    /\ b_prior_' = ResizeVec(b_prior_, ResizePoseHessiansWhenAddingPose(v))
               ELSE UNCHANGED << H_prior_, b_prior_ >>
            /\ lastRet' = TRUE
            /\ UNCHANGED << problemType_, edges_, vertexToEdge_, idx_pose_vertices_,
                            idx_landmark_vertices_, ordering_id_, ovars, avars >>

\* Problem::AddEdge
AddEdge(e) ==
    /\ UNCHANGED svars
    /\ lastOp' = "AddEdge"
    /\ lastArg' = e
    /\ lastRemoved' = {}
    /\ IF e \in edges_
       THEN /\ lastRet' = FALSE
            /\ UNCHANGED << gvars, ovars, avars >>
       ELSE /\ IndexSize + Len(Verticies(e)) <= MaxIndex
            /\ edges_' = edges_ \cup {e}
            /\ vertexToEdge_' =
                 [v \in DOMAIN vertexToEdge_ |->
                    [f \in EdgeIds |->
                       vertexToEdge_[v][f]
                       + IF f = e
                         THEN Cardinality({i \in 1..Len(Verticies(e)) : Verticies(e)[i] = v})
                         ELSE 0]]
            /\ lastRet' = TRUE
            /\ UNCHANGED << problemType_, verticies_, idx_pose_vertices_,
                            idx_landmark_vertices_, ordering_id_, H_prior_, b_prior_,
                            ovars, avars >>

\* Problem::RemoveEdge
RemoveEdge(e) ==
    /\ UNCHANGED svars
    /\ lastOp' = "RemoveEdge"
    /\ lastArg' = e
    /\ IF e \notin edges_
       THEN /\ lastRet' = FALSE
            /\ lastRemoved' = {}
            /\ UNCHANGED << gvars, ovars, avars >>
       ELSE /\ edges_' = edges_ \ {e}
            /\ lastRemoved' = {e}
            /\ lastRet' = TRUE
            /\ UNCHANGED << problemType_, verticies_, vertexToEdge_, idx_pose_vertices_,
                            idx_landmark_vertices_, ordering_id_, H_prior_, b_prior_,
                            ovars, avars >>

\* The edges Problem::RemoveVertex erases: RemoveEdge on every element of
\* GetConnectedEdges(vertex).
RemoveVertexEdges(v) == { e \in EdgeIds : GetConnectedEdges(v)[e] > 0 }

\* Problem::RemoveVertex
RemoveVertex(v) ==
    /\ UNCHANGED svars
    /\ lastOp' = "RemoveVertex"
    /\ lastArg' = v
    /\ IF v \notin verticies_
       THEN /\ lastRet' = FALSE
            /\ lastRemoved' = {}
            /\ UNCHANGED << gvars, ovars, avars >>
       ELSE /\ edges_' = edges_ \ RemoveVertexEdges(v)
            /\ lastRemoved' = edges_ \cap RemoveVertexEdges(v)
            /\ idx_pose_vertices_' =
                 IF IsPoseVertex(v) THEN idx_pose_vertices_ \ {v} ELSE idx_pose_vertices_
            /\ idx_landmark_vertices_' =
                 IF IsPoseVertex(v) THEN idx_landmark_vertices_
                 ELSE idx_landmark_vertices_ \ {v}
            /\ ordering_id_' = [ordering_id_ EXCEPT ![v] = -1]
            /\ verticies_' = verticies_ \ {v}
            /\ vertexToEdge_' = [vertexToEdge_ EXCEPT ![v] = [e \in EdgeIds |-> 0]]
            /\ lastRet' = TRUE
            /\ UNCHANGED << problemType_, H_prior_, b_prior_, ovars, avars >>

Next ==
    \/ \E v \in VertexIds : AddVertex(v)
    \/ \E e \in EdgeIds : AddEdge(e)
    \/ \E e \in EdgeIds : RemoveEdge(e)
    \/ \E v \in VertexIds : RemoveVertex(v)

Spec == Init /\ [][Next]_vars

\* ---------------------------------------------------------------- ordering

\* Problem::AddOrderingSLAM on the ordering state st.
AddOrderingSLAM(st, v) ==
    IF IsPoseVertex(v)
    THEN [st EXCEPT !.oid[v] = st.poses,
                    !.idxp = st.idxp \cup {v},
                    !.poses = st.poses + LocalDimension(v)]
    ELSE IF IsLandmarkVertex(v)
    THEN [st EXCEPT !.oid[v] = st.landmarks,
                    !.landmarks = st.landmarks + LocalDimension(v),
                    !.idxl = st.idxl \cup {v}]
    ELSE st

RECURSIVE SetOrderingWalk(_, _)
\* The loop of SetOrdering over the vertices S of verticies_ still to visit, in
\* ascending id.
SetOrderingWalk(S, st) ==
    IF S = {} THEN st
    ELSE Only({ SetOrderingWalk(S \ {kc[1]},
                    IF problemType_ = "SLAM_PROBLEM" THEN AddOrderingSLAM(kc[2], kc[1])
                    ELSE kc[2])
                : kc \in { << k, [st EXCEPT !.generic = st.generic + LocalDimension(k)] >>
                           : k \in {CHOOSE x \in S : \A y \in S : x <= y} } })

\* Problem::SetOrdering: the ordering state it leaves.
SetOrdering ==
    Only({ IF problemType_ = "SLAM_PROBLEM"
           THEN [walked EXCEPT !.oid = [v \in DOMAIN walked.oid |->
                                          IF v \in walked.idxl
                                          THEN walked.oid[v] + walked.poses
                                          ELSE walked.oid[v]]]
           ELSE walked
           : walked \in {SetOrderingWalk(verticies_,
                            [oid |-> ordering_id_, poses |-> 0, landmarks |-> 0,
                             generic |-> 0, idxp |-> idx_pose_vertices_,
                             idxl |-> idx_landmark_vertices_])} })

\* ----------------------------------------------- ordering a changing graph
\* Vertex objects of every type tag: the ids beyond VertexIds bring the second
\* pose-like tag and a tag that is neither pose-like nor landmark-like.
OrderingVertexIds == 1..(NumVertices + 2)

\* A new Problem, with vertex objects of every tag at hand and no edge object.
InitOrdering ==
    /\ problemType_ \in {"GENERIC_PROBLEM", "SLAM_PROBLEM"}
    /\ verticies_ = {}
    /\ edges_ = {}
    /\ vertexToEdge_ = [v \in OrderingVertexIds |-> [e \in EdgeIds |-> 0]]
    /\ idx_pose_vertices_ = {}
    /\ idx_landmark_vertices_ = {}
    /\ ordering_id_ = [v \in OrderingVertexIds |-> -1]
    /\ H_prior_ = ZeroMat(0)
    /\ b_prior_ = ZeroVec(0)
    /\ fixed_ = {}
    /\ ordering_poses_ = 0
    /\ ordering_landmarks_ = 0
    /\ ordering_generic_ = 0
    /\ edges_idx_ = << >>
    /\ multi_H_ = ZeroMat(0)
    /\ multi_b_ = ZeroVec(0)
    /\ Hessian_ = ZeroMat(0)
    /\ b_ = ZeroVec(0)
    /\ delta_x_ = ZeroVec(0)
    /\ asm_pc = "idle"
    /\ thd_ops = << >>
    /\ thd_reg = << >>
    /\ ub = FALSE
    /\ lastOp = "none"
    /\ lastArg = 0
    /\ lastRet = TRUE
    /\ lastRemoved = {}
    /\ NoSolve

\* Problem::ExtendHessiansPriorSize
ExtendHessiansPriorSize(dim) ==
    /\ UNCHANGED svars
    /\ H_prior_rows + dim <= MaxPriorRows
    /\ lastOp' = "ExtendHessiansPriorSize"
    /\ lastArg' = dim
    /\ lastRet' = TRUE
    /\ lastRemoved' = {}
    /\ H_prior_' = ResizeMat(H_prior_, H_prior_rows + dim)
    /\ b_prior_' = ResizeVec(b_prior_, H_prior_rows + dim)
    /\ UNCHANGED << problemType_, verticies_, edges_, vertexToEdge_, idx_pose_vertices_,
                    idx_landmark_vertices_, ordering_id_, ovars, avars >>

\* Problem::SetOrdering, called on the graph as it stands (the first statement
\* of Solve and of Marginalize).
SetOrderingCall ==
    /\ UNCHANGED svars
    /\ lastOp' = "SetOrdering"
    /\ lastArg' = 0
    /\ lastRet' = TRUE
    /\ lastRemoved' = {}
    /\ \E ordered \in {SetOrdering} :
          /\ ordering_id_' = ordered.oid
          /\ ordering_poses_' = ordered.poses
          /\ ordering_landmarks_' = ordered.landmarks
          /\ ordering_generic_' = ordered.generic
          /\ idx_pose_vertices_' = ordered.idxp
          /\ idx_landmark_vertices_' = ordered.idxl
    /\ UNCHANGED << problemType_, verticies_, edges_, vertexToEdge_, H_prior_, b_prior_,
                    fixed_, avars >>

NextOrdering ==
    \/ \E v \in OrderingVertexIds : AddVertex(v)
    \/ \E v \in OrderingVertexIds : RemoveVertex(v)
    \/ \E v \in OrderingVertexIds : ExtendHessiansPriorSize(LocalDimension(v))
    \/ SetOrderingCall

SpecOrdering == InitOrdering /\ [][NextOrdering]_vars

\* ---------------------------------------------------------- marginalization
\* The sum of LocalDimension over a set of vertices.
RECURSIVE SumDimension(_)
SumDimension(S) ==
    IF S = {} THEN 0
    ELSE Only({ LocalDimension(v) + SumDimension(S \ {v}) : v \in {CHOOSE x \in S : TRUE} })

\* The pose-like and the landmark-like vertices of the graph.
PoseVertices == { v \in verticies_ : IsPoseVertex(v) }
LandmarkVertices == { v \in verticies_ : IsLandmarkVertex(v) }

\* The set of the elements of a list.
Range(list) == { list[i] : i \in 1..Len(list) }

\* The lists of vertices a caller may hand to Marginalize.
MargVertexLists ==
    { << v >> : v \in OrderingVertexIds }
    \cup { uv \in OrderingVertexIds \X OrderingVertexIds : uv[1] # uv[2] }

\* marg_edges of Marginalize: GetConnectedEdges(margVertexs[0]).
MargEdges(margVertexs) == { e \in EdgeIds : GetConnectedEdges(margVertexs[1])[e] > 0 }

\* margLandmark of Marginalize: the landmark vertices of the edges of marg_edges.
MargLandmarks(margVertexs) ==
    { v \in DOMAIN vertexToEdge_ : IsLandmarkVertex(v)
                                   /\ \E e \in MargEdges(margVertexs) : v \in VerticiesSet(e) }

\* The ordering ids as the renumbering of margLandmark leaves them: from
\* pose_dim on, in the order the landmarks are met (here ascending id).
MargOrdering(oid, margVertexs, pose_dim) ==
    [v \in DOMAIN oid |->
        IF v \in MargLandmarks(margVertexs)
        THEN pose_dim + SumDimension({ u \in MargLandmarks(margVertexs) : u < v })
        ELSE oid[v]]

\* Whether Marginalize addresses a block outside H_marg or b_marg, adds a prior
\* of another size, or asks for a matrix of negative size.
MarginalizeUndefined(oid, margVertexs, pose_dim) ==
    \/ \E e \in MargEdges(margVertexs) : \E v \in VerticiesSet(e) :
          \/ oid[v] < 0
          \/ oid[v] + LocalDimension(v)
                > pose_dim + SumDimension(MargLandmarks(margVertexs))
    \/ H_prior_rows > 0 /\ H_prior_rows # pose_dim
    \/ \E v \in Range(margVertexs) :
          oid[v] < 0 \/ oid[v] + LocalDimension(v) > pose_dim
    \/ pose_dim < SumDimension(Range(margVertexs))

\* Problem::Marginalize.  The entries of the new prior are what the two
\* eigendecompositions leave: here a diagonal of d.
Marginalize(margVertexs, pose_dim) ==
    /\ ~ub
    /\ Range(margVertexs) \subseteq verticies_
    /\ lastOp' = "Marginalize"
    /\ lastArg' = margVertexs
    /\ lastRet' = TRUE
    /\ \E ordered \in {SetOrdering} :
       \E oid \in {MargOrdering(ordered.oid, margVertexs, pose_dim)} :
       \E removed \in {(Range(margVertexs) \cup MargLandmarks(margVertexs)) \cap verticies_} :
          /\ ordering_poses_' = ordered.poses
          /\ ordering_landmarks_' = ordered.landmarks
          /\ ordering_generic_' = ordered.generic
          /\ IF MarginalizeUndefined(oid, margVertexs, pose_dim)
             THEN /\ ub' = TRUE
                  /\ ordering_id_' = oid
                  /\ idx_pose_vertices_' = ordered.idxp
                  /\ idx_landmark_vertices_' = ordered.idxl
                  /\ lastRemoved' = {}
                  /\ UNCHANGED << verticies_, edges_, vertexToEdge_, H_prior_, b_prior_,
                                  err_prior_, Jt_prior_inv_ >>
             ELSE /\ \E d \in {0, 1}, n2 \in {pose_dim - SumDimension(Range(margVertexs))} :
                        /\ H_prior_' = [r \in 0..(n2 - 1) |-> [c \in 0..(n2 - 1) |->
                                           IF r = c THEN d ELSE 0]]
                        /\ b_prior_' = [r \in 0..(n2 - 1) |-> d]
                        /\ Jt_prior_inv_' = [r \in 0..(n2 - 1) |-> [c \in 0..(n2 - 1) |->
                                                IF r = c THEN d ELSE 0]]
                        /\ err_prior_' = [r \in 0..(n2 - 1) |-> -d]
                  /\ edges_' = { e \in edges_ : \A v \in removed : GetConnectedEdges(v)[e] = 0 }
                  /\ lastRemoved' = edges_ \ edges_'
                  /\ verticies_' = verticies_ \ removed
                  /\ vertexToEdge_' = [v \in DOMAIN vertexToEdge_ |->
                                         IF v \in removed THEN [e \in EdgeIds |-> 0]
                                         ELSE vertexToEdge_[v]]
                  /\ ordering_id_' = [v \in DOMAIN oid |-> IF v \in removed THEN -1 ELSE oid[v]]
                  /\ idx_pose_vertices_' =
                        ordered.idxp \ { v \in removed : IsPoseVertex(v) }
                  /\ idx_landmark_vertices_' =
                        ordered.idxl \ { v \in removed : ~IsPoseVertex(v) }
                  /\ UNCHANGED ub
    /\ UNCHANGED << problemType_, fixed_, edges_idx_, multi_H_, multi_b_, Hessian_, b_,
                    delta_x_, asm_pc, thd_ops, thd_reg, dvars, tvars, parameters_,
                    parameters_backup_, b_prior_backup_, err_prior_backup_ >>

\* A graph that is built up and marginalized in turn; a caller passes the size
\* of the pose block or the size of the prior as pose_dim.
NextMarginalize ==
    \/ \E v \in OrderingVertexIds : AddVertex(v)
    \/ \E e \in EdgeIds : AddEdge(e)
    \/ \E margVertexs \in MargVertexLists :
          \E pose_dim \in {SumDimension(PoseVertices), H_prior_rows} :
             Marginalize(margVertexs, pose_dim)

SpecMarginalize == InitOrdering /\ [][NextMarginalize]_vars

\* ---------------------------------------------------------------- assembly
\* The worker count of MakeHessianMulti.
thd_num == 4
Workers == 0..(thd_num - 1)

\* The Edge interface as the assembly sees it: a one-row Jacobian of ones per
\* incident vertex, a 1x1 information matrix Weight(e) (robustInfo is the same
\* and drho = 1), and a residual of 1.
Weight(e) == 4 ^ (e - 1)

\* The accesses one edge makes to the shared H and b, in program order
\* (thdCalcHessian's loops over i and j >= i): an "H" access adds val to the
\* dim_r x dim_c block at (row, col); a "b" access subtracts val from the segment.
RECURSIVE EdgeOpsJ(_, _, _)
EdgeOpsJ(e, i, j) ==
    LET vs == Verticies(e)
    IN IF j > Len(vs) THEN << >>
       ELSE IF vs[j] \in fixed_ THEN EdgeOpsJ(e, i, j + 1)
       ELSE LET upper == [kind |-> "H", row |-> ordering_id_[vs[i]], col |-> ordering_id_[vs[j]],
                          rdim |-> LocalDimension(vs[i]), cdim |-> LocalDimension(vs[j]),
                          val |-> Weight(e), edge |-> e]
                lower == [kind |-> "H", row |-> ordering_id_[vs[j]], col |-> ordering_id_[vs[i]],
                          rdim |-> LocalDimension(vs[j]), cdim |-> LocalDimension(vs[i]),
                          val |-> Weight(e), edge |-> e]
            IN (IF j # i THEN << upper, lower >> ELSE << upper >>) \o EdgeOpsJ(e, i, j + 1)

RECURSIVE EdgeOpsI(_, _)
EdgeOpsI(e, i) ==
    LET vs == Verticies(e)
    IN IF i > Len(vs) THEN << >>
       ELSE IF vs[i] \in fixed_ THEN EdgeOpsI(e, i + 1)
       ELSE EdgeOpsJ(e, i, i)
            \o << [kind |-> "b", row |-> ordering_id_[vs[i]], col |-> 0,
                   rdim |-> LocalDimension(vs[i]), cdim |-> 1,
                   val |-> Weight(e), edge |-> e] >>
            \o EdgeOpsI(e, i + 1)

\* edges_[edges_idx_[i]] and what the worker does with it: an id that is not a
\* key of edges_ yields a null shared_ptr, which the worker dereferences.
LookupOps(id) ==
    IF id \in edges_ THEN EdgeOpsI(id, 1)
    ELSE << [kind |-> "null", row |-> 0, col |-> 0, rdim |-> 0, cdim |-> 0,
             val |-> 0, edge |-> id] >>

RECURSIVE thdCalcHessianOps(_, _, _, _)
\* Problem::thdCalcHessian(thd_id, thd_num): the accesses of the worker, for
\* i = thd_id, thd_id + thd_num, ... < edge_num over the list idx.
thdCalcHessianOps(i, n, edge_num, idx) ==
    IF i >= edge_num THEN << >>
    ELSE LookupOps(idx[i + 1]) \o thdCalcHessianOps(i + n, n, edge_num, idx)

\* The ids of a set of edges in the iteration order of edges_ (ascending).
RECURSIVE EdgeIdList(_)
EdgeIdList(S) ==
    IF S = {} THEN << >>
    ELSE LET m == CHOOSE x \in S : \A y \in S : x <= y
         IN << m >> \o EdgeIdList(S \ {m})

InBlock(op, r, c) ==
    /\ r >= op.row /\ r < op.row + op.rdim
    /\ c >= op.col /\ c < op.col + op.cdim

\* Whether the block of an access lies inside an n x n matrix (n-vector).
InBounds(op, n) ==
    /\ op.row >= 0 /\ op.row + op.rdim <= n
    /\ op.kind = "H" => (op.col >= 0 /\ op.col + op.cdim <= n)

\* M.block(row, col, rdim, cdim) += val
AddBlock(M, op) ==
    [r \in DOMAIN M |-> [c \in DOMAIN M[r] |->
        IF InBlock(op, r, c) THEN M[r][c] + op.val ELSE M[r][c]]]

\* The loaded block, as the matrix entries it covers.
LoadBlock(M, op) ==
    [rc \in { q \in (DOMAIN M) \X (DOMAIN M) : InBlock(op, q[1], q[2]) } |-> M[rc[1]][rc[2]]]

\* M.block(...) = loaded + val
StoreBlock(M, op, loaded) ==
    [r \in DOMAIN M |-> [c \in DOMAIN M[r] |->
        IF InBlock(op, r, c) THEN loaded[<< r, c >>] + op.val ELSE M[r][c]]]

\* x.segment(row, rdim) -= drho * J^T * W * r
SubSegment(x, op) ==
    [r \in DOMAIN x |-> IF r >= op.row /\ r < op.row + op.rdim THEN x[r] - op.val ELSE x[r]]

\* A fold that takes b_prior_ as it is stored, fixed pose vertices included.
MaskedPriorb_Unmasked == b_prior_

\* The fold of the prior into H and b at the end of an assembly: the copy of the
\* prior with the rows and columns of every fixed pose vertex zeroed.
MaskedPriorH ==
    [r \in DOMAIN H_prior_ |-> [c \in DOMAIN H_prior_ |->
        IF \E v \in verticies_ :
              /\ IsPoseVertex(v) /\ v \in fixed_
              /\ \/ (r >= ordering_id_[v] /\ r < ordering_id_[v] + LocalDimension(v))
                 \/ (c >= ordering_id_[v] /\ c < ordering_id_[v] + LocalDimension(v))
        THEN 0 ELSE H_prior_[r][c]]]
MaskedPriorb ==
    [r \in DOMAIN b_prior_ |->
        IF \E v \in verticies_ :
              /\ IsPoseVertex(v) /\ v \in fixed_
              /\ r >= ordering_id_[v] /\ r < ordering_id_[v] + LocalDimension(v)
        THEN 0 ELSE b_prior_[r]]

\* Whether the fold-in is defined: the prior has the size of the pose block.
PriorFits ==
    H_prior_rows > 0 => (H_prior_rows = ordering_poses_ /\ ordering_poses_ <= ordering_generic_)

FoldPriorH(M) ==
    IF H_prior_rows > 0
    THEN [r \in DOMAIN M |-> [c \in DOMAIN M[r] |->
            IF r < ordering_poses_ /\ c < ordering_poses_
            THEN M[r][c] + MaskedPriorH[r][c] ELSE M[r][c]]]
    ELSE M
FoldPriorb(x) ==
    IF H_prior_rows > 0
    THEN [r \in DOMAIN x |-> IF r < ordering_poses_ THEN x[r] + MaskedPriorb[r] ELSE x[r]]
    ELSE x

RECURSIVE ApplyOps(_, _)
\* All accesses of a list made one after the other on (H, b), each in one piece.
ApplyOps(Hb, ops) ==
    IF ops = << >> THEN Hb
    ELSE LET op == Head(ops)
         IN ApplyOps(IF op.kind = "H" THEN [Hb EXCEPT !.H = AddBlock(Hb.H, op)]
                     ELSE [Hb EXCEPT !.b = SubSegment(Hb.b, op)],
                     Tail(ops))

RECURSIVE SingleOps(_)
SingleOps(ids) ==
    IF ids = << >> THEN << >> ELSE EdgeOpsI(Head(ids), 1) \o SingleOps(Tail(ids))

\* Problem::MakeHessianSingle: H and b as the serial loop over edges_ builds them.
MakeHessianSingle ==
    LET acc == ApplyOps([H |-> ZeroMat(ordering_generic_), b |-> ZeroVec(ordering_generic_)],
                        SingleOps(EdgeIdList(edges_)))
    IN [H |-> FoldPriorH(acc.H), b |-> FoldPriorb(acc.b)]

\* Problem::MakeHessianMulti up to the creation of the workers.
MakeHessianMulti_Fork ==
    /\ UNCHANGED svars
    /\ asm_pc = "idle" /\ ~ub
    /\ multi_H_' = ZeroMat(ordering_generic_)
    /\ multi_b_' = ZeroVec(ordering_generic_)
    /\ edges_idx_' = edges_idx_ \o EdgeIdList(edges_)
    /\ thd_ops' = [t \in Workers |->
                     thdCalcHessianOps(t, thd_num, Cardinality(edges_), edges_idx_')]
    /\ thd_reg' = [t \in Workers |-> << >>]
    /\ asm_pc' = "forked"
    /\ UNCHANGED << gvars, ovars, hvars, Hessian_, b_, delta_x_, ub >>

\* A worker loads the block of its next H access.
ThdLoadH(t) ==
    /\ UNCHANGED svars
    /\ asm_pc = "forked" /\ ~ub
    /\ thd_ops[t] # << >> /\ Head(thd_ops[t]).kind = "H"
    /\ InBounds(Head(thd_ops[t]), ordering_generic_)
    /\ thd_reg[t] = << >>
    /\ thd_reg' = [thd_reg EXCEPT ![t] = << LoadBlock(multi_H_, Head(thd_ops[t])) >>]
    /\ UNCHANGED << gvars, ovars, hvars, edges_idx_, multi_H_, multi_b_, Hessian_, b_,
                    delta_x_, asm_pc, thd_ops, ub >>

\* A worker stores the block it loaded, with the edge's term added.
ThdStoreH(t) ==
    /\ UNCHANGED svars
    /\ asm_pc = "forked" /\ ~ub
    /\ thd_ops[t] # << >> /\ Head(thd_ops[t]).kind = "H"
    /\ thd_reg[t] # << >>
    /\ multi_H_' = StoreBlock(multi_H_, Head(thd_ops[t]), thd_reg[t][1])
    /\ thd_reg' = [thd_reg EXCEPT ![t] = << >>]
    /\ thd_ops' = [thd_ops EXCEPT ![t] = Tail(thd_ops[t])]
    /\ UNCHANGED << gvars, ovars, hvars, edges_idx_, multi_b_, Hessian_, b_, delta_x_,
                    asm_pc, ub >>

\* A worker updates its b segment while it holds m_hessian_.
ThdUpdateB(t) ==
    /\ UNCHANGED svars
    /\ asm_pc = "forked" /\ ~ub
    /\ thd_ops[t] # << >> /\ Head(thd_ops[t]).kind = "b"
    /\ InBounds(Head(thd_ops[t]), ordering_generic_)
    /\ multi_b_' = SubSegment(multi_b_, Head(thd_ops[t]))
    /\ thd_ops' = [thd_ops EXCEPT ![t] = Tail(thd_ops[t])]
    /\ UNCHANGED << gvars, ovars, hvars, edges_idx_, multi_H_, Hessian_, b_, delta_x_,
                    asm_pc, thd_reg, ub >>

\* A worker dereferences a null edge or addresses a block outside H or b.
ThdUndefined(t) ==
    /\ UNCHANGED svars
    /\ asm_pc = "forked" /\ ~ub
    /\ thd_ops[t] # << >>
    /\ \/ Head(thd_ops[t]).kind = "null"
       \/ ~InBounds(Head(thd_ops[t]), ordering_generic_)
    /\ ub' = TRUE
    /\ UNCHANGED << gvars, ovars, hvars, edges_idx_, multi_H_, multi_b_, Hessian_, b_,
                    delta_x_, asm_pc, thd_ops, thd_reg >>

\* MakeHessianMulti without the join: the copy is made while workers still run.
MakeHessianMulti_Join_NoWait ==
    /\ UNCHANGED svars
    /\ asm_pc = "forked" /\ ~ub
    /\ IF PriorFits
       THEN /\ Hessian_' = FoldPriorH(multi_H_)
            /\ b_' = FoldPriorb(multi_b_)
            /\ delta_x_' = ZeroVec(ordering_generic_)
            /\ asm_pc' = "joined"
            /\ UNCHANGED ub
       ELSE /\ ub' = TRUE
            /\ UNCHANGED << Hessian_, b_, delta_x_, asm_pc >>
    /\ UNCHANGED << gvars, ovars, hvars, edges_idx_, multi_H_, multi_b_, thd_ops, thd_reg >>

\* Problem::MakeHessianMulti from the join of the workers to its end.
MakeHessianMulti_Join ==
    /\ UNCHANGED svars
    /\ asm_pc = "forked" /\ ~ub
    /\ \A t \in Workers : thd_ops[t] = << >>
    /\ IF PriorFits
       THEN /\ Hessian_' = FoldPriorH(multi_H_)
            /\ b_' = FoldPriorb(multi_b_)
            /\ delta_x_' = ZeroVec(ordering_generic_)
            /\ asm_pc' = "joined"
            /\ UNCHANGED ub
       ELSE /\ ub' = TRUE
            /\ UNCHANGED << Hessian_, b_, delta_x_, asm_pc >>
    /\ UNCHANGED << gvars, ovars, hvars, edges_idx_, multi_H_, multi_b_, thd_ops, thd_reg >>

RECURSIVE PoseDimensionFrom(_)
PoseDimensionFrom(k) ==
    IF k > NumVertices THEN 0
    ELSE (IF IsPoseVertex(k) THEN LocalDimension(k) ELSE 0) + PoseDimensionFrom(k + 1)

\* The size AddVertex has grown the prior to once every vertex is added.
PoseDimension == IF problemType_ = "SLAM_PROBLEM" THEN PoseDimensionFrom(1) ELSE 0

\* Edge objects on the same vertices as edge NumEdges (two measurements between
\* the same variables).
ParallelEdges == { e \in 1..(2 * NumEdges) : Verticies(e) = Verticies(NumEdges) }

\* A problem holding every vertex, and every edge or the parallel edges, as
\* AddVertex and AddEdge build it, some vertices fixed, the prior as AddVertex
\* leaves it (zero) or full of p as a Marginalize may leave it.
InitAsm ==
    /\ problemType_ \in {"GENERIC_PROBLEM", "SLAM_PROBLEM"}
    /\ verticies_ = VertexIds
    /\ edges_ \in {EdgeIds, ParallelEdges}
    /\ vertexToEdge_ = [v \in VertexIds |-> [e \in EdgeIds \cup ParallelEdges |->
                          IF e \in edges_
                          THEN Cardinality({i \in 1..Len(Verticies(e)) : Verticies(e)[i] = v})
                          ELSE 0]]
    /\ fixed_ \in SUBSET VertexIds
    /\ \E p \in {0, 1} :
          /\ H_prior_ = [r \in 0..(PoseDimension - 1) |-> [c \in 0..(PoseDimension - 1) |-> p]]
          /\ b_prior_ = [r \in 0..(PoseDimension - 1) |-> p]
    /\ ordering_id_ = [v \in VertexIds |-> -1]
    /\ idx_pose_vertices_ = {}
    /\ idx_landmark_vertices_ = {}
    /\ ordering_poses_ = 0
    /\ ordering_landmarks_ = 0
    /\ ordering_generic_ = 0
    /\ edges_idx_ = << >>
    /\ multi_H_ = ZeroMat(0)
    /\ multi_b_ = ZeroVec(0)
    /\ Hessian_ = ZeroMat(0)
    /\ b_ = ZeroVec(0)
    /\ delta_x_ = ZeroVec(0)
    /\ asm_pc = "start"
    /\ thd_ops = << >>
    /\ thd_reg = << >>
    /\ ub = FALSE
    /\ lastOp = "none"
    /\ lastArg = 0
    /\ lastRet = TRUE
    /\ lastRemoved = {}
    /\ NoSolve

\* Problem::SetOrdering, as the first statement of a solve.
SetOrderingStep ==
    /\ UNCHANGED svars
    /\ asm_pc = "start"
    /\ ordering_id_' = SetOrdering.oid
    /\ ordering_poses_' = SetOrdering.poses
    /\ ordering_landmarks_' = SetOrdering.landmarks
    /\ ordering_generic_' = SetOrdering.generic
    /\ idx_pose_vertices_' = SetOrdering.idxp
    /\ idx_landmark_vertices_' = SetOrdering.idxl
    /\ asm_pc' = "idle"
    /\ UNCHANGED << problemType_, verticies_, edges_, vertexToEdge_, H_prior_, b_prior_,
                    fixed_, hvars, edges_idx_, multi_H_, multi_b_, Hessian_, b_, delta_x_,
                    thd_ops, thd_reg, ub >>

NextAsm ==
    \/ SetOrderingStep
    \/ MakeHessianMulti_Fork
    \/ \E t \in Workers : ThdLoadH(t)
    \/ \E t \in Workers : ThdStoreH(t)
    \/ \E t \in Workers : ThdUpdateB(t)
    \/ \E t \in Workers : ThdUndefined(t)
    \/ MakeHessianMulti_Join

SpecAsm == InitAsm /\ [][NextAsm]_vars

\* ----------------------------------------------------------------- numbers
\* The drivers' doubles are held on a grid of unit 1: a quotient is rounded to
\* the nearest grid value.  Lambda, which spans many orders of magnitude, is
\* held as (num / den) * 2^exp; the radius, rho, alpha and beta as fractions.
\* Constants below the unit (1e-5, 1e-6, 1e-7) are tested exactly where they
\* decide a comparison.  NaN stands for a non-finite entry of a vector, Inf for
\* an infinite cost.
NaN == -(2 ^ 30)
Inf == 2 ^ 30
isfinite(a) == a # NaN /\ a # Inf

Abs(a) == IF a < 0 THEN -a ELSE a
\* std::max(a, b) and std::min(a, b)
Max(a, b) == IF a < b THEN b ELSE a
Min(a, b) == IF b < a THEN b ELSE a

RECURSIVE GCD(_, _)
GCD(a, b) == IF b = 0 THEN a ELSE Only({ GCD(b, r) : r \in {a % b} })

\* a / b for b > 0, rounded to the nearest grid value.
RoundDiv(a, b) ==
    IF a >= 0 THEN (2 * a + b) \div (2 * b) ELSE -((2 * (-a) + b) \div (2 * b))

\* The fraction n / d (d # 0) in lowest terms with a positive denominator.
Frac(n, d) ==
    Only({ [num |-> (IF x.d < 0 THEN -1 ELSE 1) * (x.n \div x.g), den |-> Abs(x.d) \div x.g]
           : x \in { [n |-> nd[1], d |-> nd[2], g |-> GCD(Abs(nd[1]), Abs(nd[2]))]
                     : nd \in {<< n, d >>} } })
FracLess(a, b) == a.num * b.den < b.num * a.den
FracMax(a, b) == IF FracLess(a, b) THEN b ELSE a
FracMin(a, b) == IF FracLess(b, a) THEN b ELSE a

\* a + b, a - b and a * b on doubles: each operand is read once.
FAdd(a, b) ==
    Only({ IF x = NaN \/ y = NaN THEN NaN ELSE x + y : x \in {a}, y \in {b} })
FSub(a, b) ==
    Only({ IF x = NaN \/ y = NaN THEN NaN ELSE x - y : x \in {a}, y \in {b} })
FMul(a, b) ==
    Only({ IF x = NaN \/ y = NaN THEN NaN ELSE x * y : x \in {a}, y \in {b} })

RECURSIVE SumRange(_, _, _)
\* f[lo] + ... + f[hi - 1]
SumRange(f, lo, hi) ==
    IF hi <= lo THEN 0
    ELSE IF hi = lo + 1 THEN f[lo]
    ELSE Only({ FAdd(SumRange(f, lo, mid), SumRange(f, mid, hi))
                : mid \in {(lo + hi) \div 2} })
SumUpTo(f, n) == SumRange(f, 0, n)

\* x.dot(y), x.squaredNorm(), M * x, x.head(n), x.segment(idx, dim)
Dot(x, y) == SumUpTo([i \in DOMAIN x |-> FMul(x[i], y[i])], Rows(x))
squaredNorm(x) == Dot(x, x)
MatVec(M, x) == [r \in DOMAIN M |-> Dot(M[r], x)]
head(x, n) == [i \in 0..(n - 1) |-> x[i]]
segment(x, idx, dim) == [i \in 0..(dim - 1) |-> x[idx + i]]
HasNaN(x) == \E i \in DOMAIN x : x[i] = NaN
AllNaN(n) == [i \in 0..(n - 1) |-> NaN]
VecSub(x, y) == [i \in DOMAIN x |-> FSub(x[i], y[i])]
VecNeg(x) == [i \in DOMAIN x |-> FSub(0, x[i])]
Identity(n) == [r \in 0..(n - 1) |-> [c \in 0..(n - 1) |-> IF r = c THEN 1 ELSE 0]]

\* The largest exponent a power of two is formed with.
ExpCap == 24
Pow2(k) == 2 ^ Min(k, ExpCap)

\* The exponent of a power of two n >= 1.
Log2(n) == CHOOSE k \in 0..29 : 2 ^ k <= n /\ n < 2 ^ (k + 1)

\* lambda in lowest terms.
Lam(n, d, e) == Only({ [num |-> f.num, den |-> f.den, exp |-> e] : f \in {Frac(n, d)} })
\* lambda * ni for ni a power of two (ni_ is 2, 4, 8, ...).
LamTimesPow2(lam, ni) == [lam EXCEPT !.exp = lam.exp + Log2(ni)]
\* lambda * f for a fraction f.
LamTimesFrac(lam, f) == Lam(lam.num * f.num, lam.den * f.den, lam.exp)
\* a <= b, for a and b that are not both negative.
LamLeq(a, b) ==
    IF a.num <= 0 THEN b.num >= 0
    ELSE IF b.num <= 0 THEN FALSE
    ELSE LET l == a.num * b.den
             r == b.num * a.den
         IN IF a.exp >= b.exp
            THEN a.exp - b.exp <= ExpCap /\ l <= r \div Pow2(a.exp - b.exp)
            ELSE b.exp - a.exp > ExpCap \/ (l + Pow2(b.exp - a.exp) - 1) \div Pow2(b.exp - a.exp) <= r
\* lambda * k (k >= 0) on the grid; a product beyond the range of the grid is
\* held at the top of the range.
LamTimes(lam, k) ==
    IF lam.num = 0 \/ k = 0 THEN 0
    ELSE IF lam.exp > ExpCap \/ Pow2(lam.exp) > (2 ^ 30) \div (lam.num * k)
    THEN (2 ^ 30) \div lam.den
    ELSE RoundDiv(lam.num * Pow2(lam.exp) * k, lam.den)
\* b / (h + lambda) on the grid, for h + lambda > 0; a lambda beyond the cap
\* leaves a quotient below half a unit.
DivByDamped(b, h, lam) ==
    IF b = NaN THEN NaN
    ELSE IF lam.num > 0 /\ lam.exp > ExpCap THEN 0
    ELSE RoundDiv(b * lam.den, h * lam.den + lam.num * Pow2(lam.exp))

\* ----------------------------------------------------------------- drivers
MaxIterations == 2
MaxGrad == 5
MaxCurv == 1
MaxChi2 == 2

\* The vertices of the problem a Solve call is made on: two frames' worth of
\* pose-like vertices and the landmarks between them.
SolveVertexIds == { v \in 1..(NumVertices + 3) : TypeInfo(v) # "VertexOther" }

RECURSIVE PoseDimensionOf(_)
\* The rows AddVertex has grown H_prior_ to once the vertices S are added.
PoseDimensionOf(S) ==
    IF S = {} THEN 0
    ELSE LET v == CHOOSE x \in S : TRUE
         IN (IF IsPoseVertex(v) THEN LocalDimension(v) ELSE 0) + PoseDimensionOf(S \ {v})

RECURSIVE OrderingBefore(_, _)
\* The offset a caller gives vertex v when it lays the vertices S out in
\* ascending id (Vertex::SetOrderingId).
OrderingBefore(S, v) ==
    IF S = {} THEN 0
    ELSE LET u == CHOOSE x \in S : TRUE
         IN (IF u < v THEN LocalDimension(u) ELSE 0) + OrderingBefore(S \ {u}, v)

\* The rows of the prior that UpdateStates leaves out of err_prior_.
PriorTail == 15

NoLambda == [num |-> 0, den |-> 1, exp |-> 0]
\* A value of currentLambda_ that an earlier SolveLM call has left behind.
LambdaLeft == [num |-> 1, den |-> 100000, exp |-> 21]

\* A problem on which Solve is about to be called: the graph as AddVertex and
\* AddEdge (and RemoveEdge after an earlier Solve) leave it, with or without
\* the prior that Marginalize and the later AddVertex calls leave.
InitSolve ==
    /\ problemType_ \in {"GENERIC_PROBLEM", "SLAM_PROBLEM"}
    /\ verticies_ \in {{}, SolveVertexIds}
    /\ edges_ \in {{}, EdgeIds, EdgeIds \ {1}}
    /\ vertexToEdge_ = [v \in SolveVertexIds |-> [e \in EdgeIds |->
                          Cardinality({i \in 1..Len(Verticies(e)) : Verticies(e)[i] = v})]]
    /\ idx_pose_vertices_ = {}
    /\ idx_landmark_vertices_ = {}
    /\ ordering_id_ \in
          {[v \in SolveVertexIds |-> -1]} \cup
          (IF problemType_ = "GENERIC_PROBLEM"
           THEN {[v \in SolveVertexIds |-> OrderingBefore(SolveVertexIds, v)]} ELSE {})
    /\ fixed_ = {}
    /\ ordering_poses_ = 0
    /\ ordering_landmarks_ = 0
    /\ ordering_generic_ = 0
    /\ \E prior \in BOOLEAN, bp \in {1} :
          LET rows == IF problemType_ = "SLAM_PROBLEM" THEN PoseDimensionOf(verticies_) ELSE 0
              r == rows - PriorTail
          IN /\ prior => r > 0
             /\ H_prior_ = [i \in 0..(rows - 1) |-> [j \in 0..(rows - 1) |->
                              IF prior /\ i = j /\ i < r THEN 1 ELSE 0]]
             /\ b_prior_ = [i \in 0..(rows - 1) |-> IF prior /\ i < r THEN bp ELSE 0]
             /\ Jt_prior_inv_ = IF prior THEN Identity(r) ELSE ZeroMat(0)
             /\ err_prior_ = IF prior THEN [i \in 0..(r - 1) |-> -bp] ELSE ZeroVec(0)
    /\ edges_idx_ = IF edges_ = EdgeIds THEN << >> ELSE EdgeIdList(EdgeIds)
    /\ multi_H_ = ZeroMat(0)
    /\ multi_b_ = ZeroVec(0)
    /\ Hessian_ = ZeroMat(0)
    /\ b_ = ZeroVec(0)
    /\ delta_x_ = ZeroVec(0)
    /\ asm_pc = "idle"
    /\ thd_ops = << >>
    /\ thd_reg = << >>
    /\ ub = FALSE
    /\ lastOp = "none"
    /\ lastArg = 0
    /\ lastRet = TRUE
    /\ lastRemoved = {}
    /\ solve_pc = "call"
    /\ solveType \in 0..2
    /\ iterations \in {0, MaxIterations}
    /\ solveRet = TRUE
    /\ iter = 0
    /\ stop = FALSE
    /\ false_cnt = 0
    /\ oneStepSuccess = FALSE
    /\ last_chi = 0
    /\ tries = 0
    /\ outerTries = 0
    /\ snap = << >>
    /\ linearized = << >>
    /\ tempChi = 0
    /\ currentChi_ = 0
    /\ currentLambda_ \in {NoLambda} \cup
          (IF solveType = 1 /\ problemType_ = "SLAM_PROBLEM" THEN {LambdaLeft} ELSE {})
    /\ sinceAccept = [k |-> 0, lambda |-> currentLambda_]
    /\ ni_ = 2
    /\ currentRadius_ = [num |-> 0, den |-> 1]
    /\ alpha_ = [num |-> 0, den |-> 1]
    /\ beta_ = [num |-> 0, den |-> 1]
    /\ h_gn_ = ZeroVec(0)
    /\ h_dl_ = ZeroVec(0)
    /\ parameters_ = [v \in verticies_ |-> ZeroVec(LocalDimension(v))]
    /\ parameters_backup_ = [v \in verticies_ |-> ZeroVec(LocalDimension(v))]
    /\ b_prior_backup_ = ZeroVec(0)
    /\ err_prior_backup_ = ZeroVec(0)
    /\ (solveType = 2 \/ edges_ # EdgeIds \/ verticies_ = {}
          \/ \E v \in verticies_ : ordering_id_[v] < 0 /\ problemType_ = "GENERIC_PROBLEM")
       => (iterations = MaxIterations /\ Rows(err_prior_) = 0 /\ currentLambda_ = NoLambda)

\* Problem::Solve up to the first MakeHessian of the driver it dispatches to:
\* the switch on type, the driver's test for an empty graph, and SetOrdering.
Solve ==
    /\ solve_pc = "call" /\ ~ub
    /\ IF solveType \notin {0, 1} \/ edges_ = {} \/ verticies_ = {}
       THEN /\ solveRet' = FALSE
            /\ solve_pc' = "returned"
            /\ UNCHANGED << ordering_id_, ordering_poses_, ordering_landmarks_,
                            ordering_generic_, idx_pose_vertices_, idx_landmark_vertices_ >>
       ELSE /\ \E ordered \in {SetOrdering} :
                 /\ ordering_id_' = ordered.oid
                 /\ ordering_poses_' = ordered.poses
                 /\ ordering_landmarks_' = ordered.landmarks
                 /\ ordering_generic_' = ordered.generic
                 /\ idx_pose_vertices_' = ordered.idxp
                 /\ idx_landmark_vertices_' = ordered.idxl
            /\ solve_pc' = "assemble0"
            /\ UNCHANGED solveRet
    /\ UNCHANGED << problemType_, verticies_, edges_, vertexToEdge_, H_prior_, b_prior_,
                    fixed_, avars, hvars, solveType, iterations, iter, stop, false_cnt,
                    oneStepSuccess, last_chi, tries, outerTries, snap, linearized, tempChi, sinceAccept, tvars, pvars >>

\* The vertex whose block holds row r of the state vector.
RowOwners(r) ==
    { v \in verticies_ : ordering_id_[v] <= r /\ r < ordering_id_[v] + LocalDimension(v) }

\* What the edges' Jacobians and residuals give at the current parameters, as far
\* as the drivers see it: a diagonal H with curvature cp on the rows of pose-like
\* vertices and cl on the others, and the gradient g on every row with curvature.
EdgeCurvature(r, cp, cl) ==
    IF \E v \in RowOwners(r) : IsPoseVertex(v) THEN cp ELSE cl
EdgeHessian(cp, cl) ==
    [r \in 0..(ordering_generic_ - 1) |-> [c \in 0..(ordering_generic_ - 1) |->
        IF r = c THEN EdgeCurvature(r, cp, cl) ELSE 0]]
EdgeGradient(g, cp, cl) ==
    [r \in 0..(ordering_generic_ - 1) |-> IF EdgeCurvature(r, cp, cl) > 0 THEN g ELSE 0]

\* Whether an assembly over the edge list idx executes undefined behaviour: a
\* worker looks up an id that is no key of edges_, a block lies outside H, or
\* the prior does not have the size of the pose block.
AssemblyUndefined(idx) ==
    \/ \E i \in 1..Cardinality(edges_) : idx[i] \notin edges_
    \/ \E i \in 1..Cardinality(edges_) : \E v \in VerticiesSet(idx[i]) \ fixed_ :
          \/ ordering_id_[v] < 0
          \/ ordering_id_[v] + LocalDimension(v) > ordering_generic_
    \/ ~PriorFits

\* err_prior_.squaredNorm() where the code adds it to a cost, else 0.
PriorChi2 == IF Rows(err_prior_) > 0 THEN squaredNorm(err_prior_) ELSE 0

\* The sums of Edge::RobustChi2 over edges_ that the residual code may give:
\* the finite ones that leave the halved cost on the grid.
RobustChi2Sums == { c \in 0..MaxChi2 : PriorChi2 = NaN \/ (c + PriorChi2) % 2 = 0 }

\* The sums the first cost of a driver may be made of: a gradient that is not
\* zero comes from a residual that is not.
FirstChi2Sums ==
    { c \in RobustChi2Sums :
         b_ # FoldPriorb(ZeroVec(ordering_generic_)) => c > 0 }

\* 0.5 * (sum of RobustChi2 + err_prior_.squaredNorm())
HalfChi(c2) ==
    IF c2 = NaN \/ PriorChi2 = NaN THEN NaN
    ELSE IF c2 = Inf THEN Inf
    ELSE (c2 + PriorChi2) \div 2

\* The curvature the edges gave row r at the last assembly: what Hessian_ holds
\* there less what the prior folded in.
EdgeCurvatureAt(r) == Hessian_[r][r] - FoldPriorH(ZeroMat(ordering_generic_))[r][r]

\* The curvatures an assembly may find.  The edges at hand are linear in the
\* parameters, so a re-assembly finds the curvature of the first one.
Curvatures ==
    { c \in [cp : {0, MaxCurv}, cl : {0, MaxCurv}] :
         solve_pc = "assembleAcc" =>
            \A r \in 0..(ordering_generic_ - 1) :
               EdgeCurvature(r, c.cp, c.cl) = EdgeCurvatureAt(r) }

\* The gradients an assembly may find: residuals that are all zero, as a cost
\* of zero says, leave none.
Gradients ==
    IF solve_pc = "assembleAcc" /\ 2 * currentChi_ = PriorChi2 THEN {0} ELSE {0, MaxGrad}

\* Problem::MakeHessian, called by a driver before its loop and after every
\* accepted step.
MakeHessian ==
    /\ solve_pc \in {"assemble0", "assembleAcc"} /\ ~ub
    /\ edges_idx_' = edges_idx_ \o EdgeIdList(edges_)
    /\ IF AssemblyUndefined(edges_idx_')
       THEN /\ ub' = TRUE
            /\ UNCHANGED << Hessian_, b_, delta_x_, solve_pc, false_cnt, linearized >>
       ELSE /\ \E g \in Gradients, c \in Curvatures :
                 /\ Hessian_' = FoldPriorH(EdgeHessian(c.cp, c.cl))
                 /\ b_' = FoldPriorb(EdgeGradient(g, c.cp, c.cl))
            /\ linearized' = [parameters |-> parameters_, H |-> Hessian_', b |-> b_']
            /\ delta_x_' = ZeroVec(ordering_generic_)
            /\ solve_pc' = IF solve_pc = "assemble0" THEN "init" ELSE "outerEnd"
            /\ false_cnt' = IF solve_pc = "assemble0" THEN false_cnt ELSE 0
            /\ UNCHANGED ub
    /\ UNCHANGED << gvars, ovars, hvars, multi_H_, multi_b_, asm_pc, thd_ops, thd_reg,
                    solveType, iterations, solveRet, iter, stop, oneStepSuccess, last_chi,
                    tries, outerTries, snap, tempChi, sinceAccept, tvars, pvars >>

\* 1 / tau of ComputeLambdaInitLM (tau = 1e-5).
TauInv == 100000
\* The cap 5e10 of maxDiagonal, as 50000 * 1000000.
MaxDiagonalCapHigh == 50000
MaxDiagonalCapLow == 1000000
\* The inner retry cap of both drivers.
MaxFalseCnt == 10
\* 1e20, the first last_chi_ of SolveLM: above every cost on the grid.
Chi1e20 == 2 ^ 29

\* The loop of ComputeLambdaInitLM: max over i < n of fabs(M(i, i)), from 0.
MaxDiagonalUpTo(M, n) ==
    LET diagonal == { Abs(M[i][i]) : i \in 0..(n - 1) } \cup {0}
    IN CHOOSE d \in diagonal : \A e \in diagonal : e <= d

\* Problem::ComputeLambdaInitLM, and the locals SolveLM declares after it.
ComputeLambdaInitLM ==
    /\ solve_pc = "init" /\ solveType = 0 /\ ~ub
    /\ ni_' = 2
    /\ \E c2 \in FirstChi2Sums : currentChi_' = HalfChi(c2)
    /\ LET maxDiagonal == MaxDiagonalUpTo(Hessian_, Rows(Hessian_))
       IN currentLambda_' =
             IF maxDiagonal \div MaxDiagonalCapHigh >= MaxDiagonalCapLow
             THEN Lam(MaxDiagonalCapHigh * 10, 1, 0)
             ELSE Lam(maxDiagonal, TauInv, 0)
    /\ sinceAccept' = [k |-> 0, lambda |-> currentLambda_']
    /\ stop' = FALSE
    /\ iter' = 0
    /\ last_chi' = Chi1e20
    /\ solve_pc' = "outer"
    /\ UNCHANGED << gvars, ovars, avars, hvars, solveType, iterations, solveRet, false_cnt,
                    oneStepSuccess, tries, outerTries, snap, linearized, tempChi, currentRadius_, alpha_,
                    beta_, h_gn_, h_dl_, pvars >>

\* The head of the outer loop of a driver, and its return once the loop ends.
OuterLoop ==
    /\ solve_pc = "outer" /\ ~ub
    /\ IF ~stop /\ iter < iterations
       THEN /\ oneStepSuccess' = FALSE
            /\ false_cnt' = 0
            /\ outerTries' = 0
            /\ solve_pc' = "linear"
            /\ UNCHANGED solveRet
       ELSE /\ solveRet' = TRUE
            /\ solve_pc' = "returned"
            /\ UNCHANGED << oneStepSuccess, false_cnt, outerTries >>
    /\ UNCHANGED << gvars, ovars, avars, hvars, solveType, iterations, iter, stop,
                    last_chi, tries, snap, linearized, tempChi, sinceAccept, tvars, pvars >>

\* H.ldlt().solve(b) for the diagonal H + lambda I: row i of the solution.  z is
\* what the factorization leaves in a row whose pivot is zero.
LdltRow(M, x, lam, i, z) ==
    IF M[i][i] = 0 /\ lam.num = 0 THEN z ELSE DivByDamped(x[i], M[i][i], lam)

\* Problem::SolveLinearWithSchur for a block-diagonal H (Hrs = 0): the landmark
\* block is inverted without damping; an infinite entry of Hss_inv makes
\* Hrs * Hss_inv, and with it every row of the solution, NaN.
SolveLinearWithSchur(M, x, reserve_size, schur_size, z) ==
    IF \E i \in reserve_size..(reserve_size + schur_size - 1) : M[i][i] = 0
    THEN AllNaN(Rows(x))
    ELSE [i \in DOMAIN x |->
            IF i < reserve_size THEN LdltRow(M, x, currentLambda_, i, z)
            ELSE DivByDamped(x[i], M[i][i], NoLambda)]

\* Whether the factorization meets a zero pivot.
ZeroPivot(M, lam, n) == lam.num = 0 /\ \E i \in 0..(n - 1) : M[i][i] = 0

\* Problem::SolveLinearSystem, the first statement of a try of SolveLM.
SolveLinearSystem ==
    /\ solve_pc = "linear" /\ solveType = 0 /\ ~ub
    /\ \E z \in {0, NaN} :
          /\ z = NaN => ZeroPivot(Hessian_, currentLambda_,
                                  IF problemType_ = "GENERIC_PROBLEM" THEN Rows(Hessian_)
                                  ELSE ordering_poses_)
          /\ delta_x_' =
               IF problemType_ = "GENERIC_PROBLEM"
               THEN [i \in DOMAIN b_ |-> LdltRow(Hessian_, b_, currentLambda_, i, z)]
               ELSE SolveLinearWithSchur(Hessian_, b_, ordering_poses_, ordering_landmarks_, z)
    /\ tries' = tries + 1
    /\ outerTries' = outerTries + 1
    /\ solve_pc' = "update"
    /\ UNCHANGED << gvars, ovars, hvars, edges_idx_, multi_H_, multi_b_, Hessian_, b_,
                    asm_pc, thd_ops, thd_reg, ub, solveType, iterations, solveRet, iter,
                    stop, false_cnt, oneStepSuccess, last_chi, snap, linearized, tempChi, sinceAccept, tvars, pvars >>

\* Vertex::Plus: the retraction of the vertex types at hand is the addition.
Plus(x, delta) == [i \in DOMAIN x |-> FAdd(x[i], delta[i])]

\* Whether UpdateStates reads outside delta_x_ or multiplies blocks whose sizes
\* do not agree.
UpdateUndefined ==
    \/ \E v \in verticies_ :
          ordering_id_[v] < 0 \/ ordering_id_[v] + LocalDimension(v) > Rows(delta_x_)
    \/ /\ Rows(err_prior_) > 0
       /\ \/ ordering_poses_ > Rows(delta_x_)
          \/ Rows(H_prior_) # ordering_poses_
          \/ ordering_poses_ - PriorTail < 0
          \/ ordering_poses_ - PriorTail > Rows(b_prior_)
          \/ \E r \in DOMAIN Jt_prior_inv_ : Rows(Jt_prior_inv_[r]) # ordering_poses_ - PriorTail

\* b_prior_ -= H_prior_ * delta_x_.head(ordering_poses_)
UpdatedPriorb == VecSub(b_prior_, MatVec(H_prior_, head(delta_x_, ordering_poses_)))

\* Problem::UpdateStates.  snap records what the try started from.
UpdateStates ==
    /\ solve_pc = "update" /\ ~ub
    /\ snap' = [parameters |-> parameters_, b_prior |-> b_prior_, err_prior |-> err_prior_,
                chi |-> currentChi_]
    /\ IF UpdateUndefined
       THEN /\ ub' = TRUE
            /\ UNCHANGED << solve_pc, b_prior_, pvars >>
       ELSE /\ parameters_backup_' = parameters_
            /\ parameters_' = [v \in verticies_ |->
                  Plus(parameters_[v], segment(delta_x_, ordering_id_[v], LocalDimension(v)))]
            /\ IF Rows(err_prior_) > 0
               THEN /\ b_prior_backup_' = b_prior_
                    /\ err_prior_backup_' = err_prior_
                    /\ \E updated \in {UpdatedPriorb} :
                          /\ b_prior_' = updated
                          /\ err_prior_' = VecNeg(MatVec(Jt_prior_inv_,
                                                head(updated, ordering_poses_ - PriorTail)))
               ELSE UNCHANGED << b_prior_backup_, err_prior_backup_, b_prior_, err_prior_ >>
            /\ solve_pc' = "judge"
            /\ UNCHANGED << ub, Jt_prior_inv_ >>
    /\ UNCHANGED << problemType_, verticies_, edges_, vertexToEdge_, idx_pose_vertices_,
                    idx_landmark_vertices_, ordering_id_, H_prior_, ovars, hvars,
                    edges_idx_, multi_H_, multi_b_, Hessian_, b_, delta_x_, asm_pc,
                    thd_ops, thd_reg, solveType, iterations, solveRet, iter, stop,
                    false_cnt, oneStepSuccess, last_chi, tries, outerTries, linearized, tempChi, sinceAccept,
                    tvars >>

\* RollbackStates without the restore of the vertices.
RollbackStates_KeepParameters ==
    [parameters |-> parameters_,
     b_prior    |-> IF Rows(err_prior_) > 0 THEN b_prior_backup_ ELSE b_prior_,
     err_prior  |-> IF Rows(err_prior_) > 0 THEN err_prior_backup_ ELSE err_prior_]

\* RollbackStates without the restore of the prior.
RollbackStates_KeepPrior ==
    [parameters |-> parameters_backup_, b_prior |-> b_prior_, err_prior |-> err_prior_]

\* Problem::RollbackStates: the values it leaves.
RollbackStates ==
    [parameters |-> parameters_backup_,
     b_prior    |-> IF Rows(err_prior_) > 0 THEN b_prior_backup_ ELSE b_prior_,
     err_prior  |-> IF Rows(err_prior_) > 0 THEN err_prior_backup_ ELSE err_prior_]

\* The test of the inner loop with <= for <.
InnerLoopContinues_Inclusive(cnt) == cnt <= MaxFalseCnt

\* false_cnt < 10, the test of the inner loop after a rejected try.
InnerLoopContinues(cnt) == cnt < MaxFalseCnt

\* The else branch of a try, and the test of the inner loop after it.
RejectedTry ==
    /\ solve_pc = "rollback" /\ ~ub
    /\ false_cnt' = false_cnt + 1
    /\ parameters_' = RollbackStates.parameters
    /\ b_prior_' = RollbackStates.b_prior
    /\ err_prior_' = RollbackStates.err_prior
    /\ solve_pc' = IF InnerLoopContinues(false_cnt') THEN "linear" ELSE "outerEnd"
    /\ UNCHANGED << problemType_, verticies_, edges_, vertexToEdge_, idx_pose_vertices_,
                    idx_landmark_vertices_, ordering_id_, H_prior_, ovars, avars, hvars,
                    solveType, iterations, solveRet, iter, stop, oneStepSuccess, last_chi,
                    tries, outerTries, snap, linearized, tempChi, sinceAccept, tvars, parameters_backup_, b_prior_backup_,
                    err_prior_backup_, Jt_prior_inv_ >>

\* What the residual code may give for tempChi after the update: the cost of the
\* unchanged state after a zero step, a NaN after a step that is not a number,
\* and else a finite cost or an overflow.
TempChis ==
    IF delta_x_ = ZeroVec(Rows(delta_x_)) THEN {currentChi_}
    ELSE IF HasNaN(delta_x_) THEN {NaN}
    ELSE { HalfChi(c2) : c2 \in RobustChi2Sums \cup {Inf} }

\* A quotient of doubles as a fraction; a zero denominator marks +inf (num > 0),
\* -inf (num < 0) and NaN (num = 0).
NaNFrac == [num |-> 0, den |-> 0]
PosInf == [num |-> 1, den |-> 0]
NegInf == [num |-> -1, den |-> 0]

\* rho = (currentChi_ - tempChi) / scale, for a finite currentChi_.
Rho(chi, scale) ==
    IF chi = NaN \/ scale = NaNFrac THEN NaNFrac
    ELSE IF chi = Inf
    THEN (IF scale.den = 0 THEN NaNFrac ELSE IF scale.num < 0 THEN PosInf ELSE NegInf)
    ELSE LET diff == currentChi_ - chi
         IN IF scale.den = 0 THEN [num |-> 0, den |-> 1]
            ELSE IF scale.num = 0
            THEN (IF diff > 0 THEN PosInf ELSE IF diff < 0 THEN NegInf ELSE NaNFrac)
            ELSE Frac(diff * scale.den, scale.num)

\* rho > n / d and rho < n / d (d > 0); both are false of a NaN.
RhoGreater(rho, n, d) == IF rho.den = 0 THEN rho.num > 0 ELSE rho.num * d > n * rho.den
RhoLess(rho, n, d) == IF rho.den = 0 THEN rho.num < 0 ELSE rho.num * d < n * rho.den

\* delta_x_' * (currentLambda_ * delta_x_ + b_): twice the scale of
\* IsGoodStepInLM before its 1e-6 is added.
LMScale2 ==
    IF HasNaN(delta_x_) THEN NaN
    ELSE LamTimes(currentLambda_, squaredNorm(delta_x_)) + Dot(delta_x_, b_)

\* scale of IsGoodStepInLM: the 1e-6 decides only where the rest is zero.
LMScale ==
    Only({ IF s = NaN THEN NaNFrac
           ELSE IF s = 0 THEN [num |-> 1, den |-> 1000000]
           ELSE Frac(s, 2)
           : s \in {LMScale2} })

\* max(1/3, min(1 - (2 rho - 1)^3, 2/3)) for rho > 0.
ScaleFactor(rho) ==
    IF rho.den = 0 \/ rho.num >= rho.den THEN [num |-> 1, den |-> 3]
    ELSE IF 2 * rho.num <= rho.den THEN [num |-> 2, den |-> 3]
    ELSE LET x == 2 * rho.num - rho.den
             alpha == Frac(rho.den * rho.den * rho.den - x * x * x,
                           rho.den * rho.den * rho.den)
         IN FracMax([num |-> 1, den |-> 3], FracMin(alpha, [num |-> 2, den |-> 3]))

\* The acceptance test of IsGoodStepInLM with >= for >.
LMAccepts_NonNegative(rho, chi) ==
    ~RhoLess(rho, 0, 1) /\ rho # NaNFrac /\ isfinite(chi)

\* rho > 0 && isfinite(tempChi)
LMAccepts(rho, chi) == RhoGreater(rho, 0, 1) /\ isfinite(chi)

\* The rejection of IsGoodStepInLM with lambda doubled, whatever ni_ is.
LMRejectLambda_Double(lam, ni) == LamTimesPow2(lam, 2)

\* The rejection of IsGoodStepInLM with lambda divided by ni_.
LMRejectLambda_Divide(lam, ni) == [lam EXCEPT !.exp = lam.exp - Log2(ni)]

\* currentLambda_ *= ni_
LMRejectLambda(lam, ni) == LamTimesPow2(lam, ni)

\* Problem::IsGoodStepInLM, and the assignment of its result to oneStepSuccess.
IsGoodStepInLM ==
    /\ solve_pc = "judge" /\ solveType = 0 /\ ~ub
    /\ \E chi \in TempChis, scale \in {LMScale} :
          \E rho \in {Rho(chi, scale)} :
             /\ tempChi' = chi
             /\ IF LMAccepts(rho, chi)
                THEN /\ currentLambda_' = LamTimesFrac(currentLambda_, ScaleFactor(rho))
                     /\ ni_' = 2
                     /\ sinceAccept' = [k |-> 0, lambda |-> currentLambda_']
                     /\ currentChi_' = chi
                     /\ oneStepSuccess' = TRUE
                     /\ solve_pc' = "assembleAcc"
                ELSE /\ currentLambda_' = LMRejectLambda(currentLambda_, ni_)
                     /\ ni_' = ni_ * 2
                     /\ sinceAccept' = [sinceAccept EXCEPT !.k = @ + 1]
                     /\ oneStepSuccess' = FALSE
                     /\ solve_pc' = "rollback"
                     /\ UNCHANGED currentChi_
    /\ UNCHANGED << gvars, ovars, avars, hvars, solveType, iterations, solveRet, iter, stop,
                    false_cnt, last_chi, tries, outerTries, snap, linearized, currentRadius_, alpha_,
                    beta_, h_gn_, h_dl_, pvars >>

\* d < 1e-5 for a difference d of two costs on the grid.
BelowEps(d) == d <= 0

\* The tail of an outer iteration: iter++, the stop test, last_chi = currentChi_.
OuterEnd ==
    /\ solve_pc = "outerEnd" /\ ~ub
    /\ iter' = iter + 1
    /\ stop' = (stop \/ IF solveType = 0
                        THEN BelowEps(last_chi - currentChi_)
                        ELSE BelowEps(last_chi - currentChi_) \/ squaredNorm(b_) = 0)
    /\ last_chi' = currentChi_
    /\ solve_pc' = "outer"
    /\ UNCHANGED << gvars, ovars, avars, hvars, solveType, iterations, solveRet, false_cnt,
                    oneStepSuccess, tries, outerTries, snap, linearized, tempChi, sinceAccept, tvars, pvars >>

RECURSIVE SqrtBetween(_, _, _)
\* The largest r in lo..hi with r * r <= n.
SqrtBetween(n, lo, hi) ==
    IF lo >= hi THEN lo
    ELSE Only({ IF mid * mid <= n THEN SqrtBetween(n, mid, hi)
                ELSE SqrtBetween(n, lo, mid - 1)
                : mid \in {(lo + hi + 1) \div 2} })

\* sqrt(n) on the grid, for 0 <= n < 2^30.
Sqrt(n) ==
    Only({ IF x.n - x.r * x.r > x.r THEN x.r + 1 ELSE x.r
           : x \in { [n |-> m, r |-> SqrtBetween(m, 0, 2 ^ 15)] : m \in {n} } })

\* The first radius of ComputeRadiusInitDogLeg.
RadiusInit == 10000
\* 1 / 1e-7, the floor of the radius.
RadiusFloorInv == 10000000
\* The grid beta_ is held on.
BetaDen == 16

\* Problem::ComputeRadiusInitDogLeg, and the locals SolveDogLeg declares after it.
ComputeRadiusInitDogLeg ==
    /\ solve_pc = "init" /\ solveType = 1 /\ ~ub
    /\ \E c2 \in FirstChi2Sums : currentChi_' = HalfChi(c2)
    /\ currentRadius_' = [num |-> RadiusInit, den |-> 1]
    /\ stop' = FALSE
    /\ iter' = 0
    /\ last_chi' = 0
    /\ solve_pc' = "outer"
    /\ UNCHANGED << gvars, ovars, avars, hvars, solveType, iterations, solveRet, false_cnt,
                    oneStepSuccess, tries, outerTries, snap, linearized, tempChi, sinceAccept, currentLambda_, ni_, alpha_,
                    beta_, h_gn_, h_dl_, pvars >>

\* alpha_ = b_.squaredNorm() / (b_' * Hessian_ * b_)
Alpha ==
    Only({ IF d = 0 THEN (IF n = 0 THEN NaNFrac ELSE PosInf) ELSE Frac(n, d)
           : n \in {squaredNorm(b_)}, d \in {Dot(b_, MatVec(Hessian_, b_))} })

\* x.norm() and currentRadius_ in hundredths, the grid norms are compared with
\* the radius on.
Norm100(x) == Only({ IF n = NaN THEN NaN ELSE Sqrt(n * 10000) : n \in {squaredNorm(x)} })
Radius100 == (100 * currentRadius_.num) \div currentRadius_.den

\* h_gn_norm <= currentRadius_
GaussNewtonInside(hgn) == Only({ n # NaN /\ n <= Radius100 : n \in {Norm100(hgn)} })

\* alpha_ * h_sd_norm, in hundredths, for a finite alpha_.
SteepestLength100(alpha) == (alpha.num * Norm100(b_)) \div alpha.den

\* alpha_ * h_sd_norm >= currentRadius_
SteepestOutside(alpha) ==
    IF alpha.den = 0 THEN alpha.num > 0 ELSE SteepestLength100(alpha) >= Radius100

\* currentRadius_ * b_ / b_.norm()
ScaledToRadius ==
    Only({ IF norm = 0 THEN AllNaN(Rows(b_))
           ELSE [i \in DOMAIN b_ |-> RoundDiv(radius * b_[i], norm)]
           : norm \in {Norm100(b_)}, radius \in {Radius100} })

\* a = alpha_ * h_sd_
Cauchy(alpha) ==
    IF alpha.den = 0 THEN AllNaN(Rows(b_))
    ELSE [i \in DOMAIN b_ |-> RoundDiv(alpha.num * b_[i], alpha.den)]

\* beta_ of the third branch of SolveDogLegStep, on its grid; NaNFrac where the
\* square root or the quotient is not a number.
Beta(a, hgn) ==
    LET n == currentRadius_.num
        d == currentRadius_.den
        Quotient(c, D, room, root) ==
            IF c <= 0
            THEN (IF D = 0 THEN NaNFrac
                  ELSE Frac(RoundDiv(BetaDen * (root - c * d), D * d), BetaDen))
            ELSE Frac(RoundDiv(BetaDen * room, d * (c * d + root)), BetaDen)
    IN Only({ IF x.under < 0 THEN NaNFrac ELSE Quotient(x.c, x.D, x.room, Sqrt(x.under))
              : x \in { [c |-> c, D |-> D, room |-> room,
                         under |-> c * c * d * d + D * room]
                        : c \in {Dot(a, VecSub(hgn, a))},
                          D \in {squaredNorm(VecSub(hgn, a))},
                          room \in {n * n - squaredNorm(a) * d * d} } })

\* beta_ > 0.0 && beta_ < 1.0
BetaInRange(beta) == beta.den # 0 /\ 0 < beta.num /\ beta.num < beta.den

\* Problem::SolveDogLegStep, the first statement of a try of SolveDogLeg.  A
\* failed assert aborts the process.
SolveDogLegStep ==
    /\ solve_pc = "linear" /\ solveType = 1 /\ ~ub
    /\ \E z \in {0, NaN} :
          /\ z = NaN =>
                IF problemType_ = "GENERIC_PROBLEM"
                THEN ZeroPivot(Hessian_, NoLambda, Rows(Hessian_))
                ELSE ZeroPivot(Hessian_, currentLambda_, ordering_poses_)
          /\ \E hgn \in {IF problemType_ = "GENERIC_PROBLEM"
                           THEN [i \in DOMAIN b_ |-> LdltRow(Hessian_, b_, NoLambda, i, z)]
                           ELSE SolveLinearWithSchur(Hessian_, b_, ordering_poses_,
                                                     ordering_landmarks_, z)},
                alpha \in {Alpha} :
                /\ h_gn_' = hgn
                /\ alpha_' = alpha
                /\ IF GaussNewtonInside(hgn)
                   THEN h_dl_' = hgn /\ solve_pc' = "update" /\ UNCHANGED beta_
                   ELSE IF SteepestOutside(alpha)
                   THEN h_dl_' = ScaledToRadius /\ solve_pc' = "update" /\ UNCHANGED beta_
                   ELSE \E a \in {Cauchy(alpha)} :
                        \E beta \in {IF alpha.den = 0 \/ HasNaN(hgn) THEN NaNFrac
                                     ELSE Beta(a, hgn)} :
                           /\ beta_' = beta
                           /\ IF BetaInRange(beta)
                              THEN /\ h_dl_' = [i \in DOMAIN b_ |->
                                        a[i] + RoundDiv(beta.num * (hgn[i] - a[i]), beta.den)]
                                   /\ solve_pc' = "update"
                              ELSE /\ solve_pc' = "aborted"
                                   /\ UNCHANGED h_dl_
    /\ delta_x_' = IF solve_pc' = "update" THEN h_dl_' ELSE delta_x_
    /\ tries' = tries + 1
    /\ outerTries' = outerTries + 1
    /\ UNCHANGED << gvars, ovars, hvars, edges_idx_, multi_H_, multi_b_, Hessian_, b_,
                    asm_pc, thd_ops, thd_reg, ub, solveType, iterations, solveRet, iter,
                    stop, false_cnt, oneStepSuccess, last_chi, snap, linearized, tempChi, sinceAccept, currentChi_,
                    currentLambda_, ni_, currentRadius_, pvars >>

\* h_dl_ == x: every coefficient equal, which no NaN is.
VecEq(x, y) == ~HasNaN(x) /\ ~HasNaN(y) /\ x = y

\* scale of IsGoodStepInDogLeg (option 0).  same tells whether the doubles of
\* h_dl_ and of currentRadius_ * b_ / b_.norm(), which are rounded in different
\* orders, compare equal.
DogLegScale(same) ==
    IF VecEq(h_dl_, h_gn_) THEN [num |-> currentChi_, den |-> 1]
    ELSE IF alpha_.den = 0
    THEN (IF ~(same /\ VecEq(h_dl_, ScaledToRadius)) /\ alpha_ = PosInf
             /\ beta_.num # beta_.den
          THEN PosInf ELSE NaNFrac)
    ELSE IF same /\ VecEq(h_dl_, ScaledToRadius)
    THEN LET t == (2 * alpha_.num * Norm100(b_)) \div alpha_.den - Radius100
         IN Frac(((Radius100 * t) \div 100) * alpha_.den, 2 * alpha_.num * 100)
    ELSE Frac(alpha_.num * (beta_.den - beta_.num) * (beta_.den - beta_.num)
                  * squaredNorm(b_)
              + 2 * alpha_.den * beta_.num * (2 * beta_.den - beta_.num) * currentChi_,
              2 * alpha_.den * beta_.den * beta_.den)

\* std::max(currentRadius_, 3 * delta_x_.norm())
GrowRadius(radius) ==
    IF HasNaN(delta_x_) THEN radius ELSE FracMax(radius, Frac(3 * Norm100(delta_x_), 100))

\* std::max(currentRadius_ * 0.5, 1e-7)
ShrinkRadius(radius) ==
    IF radius.num >= (2 * radius.den + RadiusFloorInv - 1) \div RadiusFloorInv
    THEN Frac(radius.num, 2 * radius.den)
    ELSE [num |-> 1, den |-> RadiusFloorInv]

\* rho > 0 && isfinite(tempChi)
DogLegAccepts(rho, chi) == RhoGreater(rho, 0, 1) /\ isfinite(chi)

\* Problem::IsGoodStepInDogLeg, and the assignment of its result to
\* oneStepSuccess.
IsGoodStepInDogLeg ==
    /\ solve_pc = "judge" /\ solveType = 1 /\ ~ub
    /\ \E chi \in TempChis, same \in BOOLEAN :
          \E rho \in {Rho(chi, DogLegScale(same))} :
             /\ tempChi' = chi
             /\ currentRadius_' =
                   IF RhoGreater(rho, 3, 4) /\ isfinite(chi)
                   THEN GrowRadius(currentRadius_)
                   ELSE IF RhoLess(rho, 1, 4) THEN ShrinkRadius(currentRadius_)
                   ELSE currentRadius_
             /\ IF DogLegAccepts(rho, chi)
                THEN /\ currentChi_' = chi
                     /\ oneStepSuccess' = TRUE
                     /\ solve_pc' = "assembleAcc"
                ELSE /\ oneStepSuccess' = FALSE
                     /\ solve_pc' = "rollback"
                     /\ UNCHANGED currentChi_
    /\ UNCHANGED << gvars, ovars, avars, hvars, solveType, iterations, solveRet, iter, stop,
                    false_cnt, last_chi, tries, outerTries, snap, linearized, sinceAccept,
                    currentLambda_, ni_,
                    alpha_, beta_, h_gn_, h_dl_, pvars >>

\* A Solve call from its entry to its return, its abort or its undefined step.
NextSolve ==
    \/ Solve
    \/ MakeHessian
    \/ ComputeLambdaInitLM
    \/ ComputeRadiusInitDogLeg
    \/ OuterLoop
    \/ SolveLinearSystem
    \/ SolveDogLegStep
    \/ UpdateStates
    \/ IsGoodStepInLM
    \/ IsGoodStepInDogLeg
    \/ RejectedTry
    \/ OuterEnd

SpecSolve == InitSolve /\ [][NextSolve]_vars

\* The thread that called Solve keeps running until the call ends.
SpecSolveFair == SpecSolve /\ WF_vars(NextSolve)

\* ------------------------------------------------------------------ claims

\* C1: when the threaded assembly has joined, H and b are those of the serial
\* assembly of the same graph, whatever the interleaving of the workers.
C1_MultiEqualsSingle ==
    asm_pc = "joined" => (Hessian_ = MakeHessianSingle.H /\ b_ = MakeHessianSingle.b)

\* C7: every edge of the edge map has all of its incident vertex ids in the
\* vertex map, after any sequence of graph-store calls.
C7_EdgesHaveVertices ==
    \A e \in edges_ : VerticiesSet(e) \subseteq verticies_

\* C8: remove_vertex(v) on a present vertex removes exactly v and exactly the
\* edges of the edge map incident to v; remove_edge(e) on a present edge
\* removes exactly e and no vertex.
C8_RemoveCascade ==
    [][ /\ (lastOp' = "RemoveVertex" /\ lastArg' \in verticies_)
            => /\ lastRet' = TRUE
               /\ verticies_' = verticies_ \ {lastArg'}
               /\ edges_' = { e \in edges_ : lastArg' \notin VerticiesSet(e) }
        /\ (lastOp' = "RemoveEdge" /\ lastArg' \in edges_)
            => /\ lastRet' = TRUE
               /\ edges_' = edges_ \ {lastArg'}
               /\ verticies_' = verticies_ ]_vars

\* A remove_vertex has cascaded to an edge while an edge not incident to the
\* vertex stays, in a store whose incidence index holds an edge twice (an
\* edge that was removed and added again).
C8_Witness ==
    /\ lastOp = "RemoveVertex" /\ lastRet = TRUE
    /\ lastRemoved # {}
    /\ edges_ # {}
    /\ \E v \in VertexIds, e \in EdgeIds : vertexToEdge_[v][e] >= 2

\* C9: each of the four graph-store calls returns false exactly on a duplicate
\* id (adds) or an absent id (removes), and a call that returns false leaves the
\* vertex map, the edge map, the incidence index and the prior's size unchanged.
C9_ReturnCodes ==
    [][ /\ lastOp' = "AddVertex" => (lastRet' = FALSE <=> lastArg' \in verticies_)
        /\ lastOp' = "AddEdge" => (lastRet' = FALSE <=> lastArg' \in edges_)
        /\ lastOp' = "RemoveVertex" => (lastRet' = FALSE <=> lastArg' \notin verticies_)
        /\ lastOp' = "RemoveEdge" => (lastRet' = FALSE <=> lastArg' \notin edges_)
        /\ (lastOp' \in {"AddVertex", "AddEdge", "RemoveVertex", "RemoveEdge"}
              /\ lastRet' = FALSE)
            => UNCHANGED << verticies_, edges_, vertexToEdge_, H_prior_, b_prior_ >> ]_vars

\* A duplicate add_vertex of a pose was refused on a store whose prior has
\* already been grown, with an edge present.
C9_Witness ==
    /\ lastOp = "AddVertex" /\ lastRet = FALSE
    /\ IsPoseVertex(lastArg)
    /\ H_prior_rows > 0
    /\ edges_ # {}

\* C10: connected_edges(v) holds exactly the edges of the edge map incident to
\* v, each exactly once.
C10_ConnectedEdgesExact ==
    \A v \in VertexIds : \A e \in EdgeIds :
        GetConnectedEdges(v)[e] = IF e \in edges_ /\ v \in VerticiesSet(e) THEN 1 ELSE 0

\* C2: in both drivers, after a rejected try (UpdateStates, then RollbackStates)
\* every vertex's parameters and the prior vectors b_prior_ and err_prior_ equal
\* what they were immediately before that try's UpdateStates, for every try of
\* a run of consecutive rejections, with or without a prior.
C2_RollbackRestores ==
    (solve_pc \in {"linear", "outerEnd"} /\ false_cnt > 0) =>
        /\ parameters_ = snap.parameters
        /\ b_prior_ = snap.b_prior
        /\ err_prior_ = snap.err_prior

\* A second consecutive rejection, of a step that moved the state, with a prior.
C2_Witness ==
    /\ solve_pc = "linear" /\ false_cnt >= 2
    /\ Rows(err_prior_) > 0
    /\ ~HasNaN(delta_x_)
    /\ MatVec(H_prior_, head(delta_x_, ordering_poses_)) # ZeroVec(Rows(H_prior_))

\* C3: every step a driver accepts leaves a cost strictly below the cost before
\* it, so that currentChi_ never increases once the driver has set it.
C3_AcceptedStepLowersChi ==
    [][/\ (solve_pc = "judge" /\ solve_pc' = "assembleAcc") => currentChi_' < currentChi_
       /\ solve_pc \notin {"call", "assemble0", "init"} => currentChi_' <= currentChi_]_vars

\* A step accepted in a later outer iteration, below the cost of the one before.
C3_Witness ==
    /\ solve_pc = "assembleAcc" /\ iter >= 1
    /\ isfinite(currentChi_) /\ currentChi_ < last_chi

\* C4: every rejected try leaves lambda (SolveLM) no smaller and the radius
\* (SolveDogLeg) no larger than it was before the try, for every try of a run
\* of consecutive rejections.
C4_RejectionIsConservative ==
    [][(solve_pc = "judge" /\ solve_pc' = "rollback") =>
          IF solveType = 0
          THEN LamLeq(currentLambda_, currentLambda_')
          ELSE ~FracLess(currentRadius_, currentRadius_')]_vars

\* A third consecutive rejection of SolveLM with a lambda that is not zero.
C4_Witness ==
    /\ solve_pc = "rollback" /\ solveType = 0 /\ false_cnt >= 2
    /\ currentLambda_.num > 0 /\ currentLambda_.exp >= 6

\* C5: a Solve call ends (it returns, or the process ends in an abort or an
\* undefined step); an outer iteration makes at most 10 tries, at most
\* `iterations` outer iterations run, and at most 10 * iterations tries are made.
C5_SolveTerminates ==
    /\ [](/\ outerTries <= MaxFalseCnt
          /\ iter <= iterations
          /\ tries <= MaxFalseCnt * iterations)
    /\ <>(solve_pc \in {"returned", "aborted"} \/ ub)

\* A call that returned after every try of every outer iteration was rejected.
C5_Witness ==
    /\ solve_pc = "returned" /\ solveRet
    /\ iterations > 1 /\ tries = MaxFalseCnt * iterations

\* Whether Solve refuses the call.
Refused == solveType \notin {0, 1} \/ edges_ = {} \/ verticies_ = {}

\* C6: Solve returns false exactly when the edge map or the vertex map is empty
\* or type is neither 0 nor 1, and then leaves the ordering counters, H, b,
\* delta_x, lambda, the radius and the cost alone; every other call, whose
\* vertices have their ordering offsets, runs to its return of true.
C6_ReturnCodes ==
    /\ solve_pc = "returned" => (solveRet = FALSE <=> Refused)
    /\ (solve_pc = "returned" /\ ~solveRet) =>
          /\ ordering_poses_ = 0 /\ ordering_landmarks_ = 0 /\ ordering_generic_ = 0
          /\ problemType_ = "SLAM_PROBLEM" => \A v \in DOMAIN ordering_id_ : ordering_id_[v] = -1
          /\ Hessian_ = ZeroMat(0) /\ b_ = ZeroVec(0) /\ delta_x_ = ZeroVec(0)
          /\ currentLambda_ = NoLambda /\ currentChi_ = 0
          /\ currentRadius_ = [num |-> 0, den |-> 1]
    /\ (~Refused /\ \A v \in verticies_ : ordering_id_[v] >= 0) => ~ub

\* C11: in a SLAM problem, right after SetOrdering on a graph built by any adds
\* and removes, the pose-like vertices in ascending id fill [0, ordering_poses_)
\* without gap, the landmark-like ones fill the ordering_landmarks_ offsets from
\* ordering_poses_ on, and ordering_generic_ is both ordering_poses_ +
\* ordering_landmarks_ and the sum of LocalDimension over all vertices.
C11_SlamOrderingBlocks ==
    (problemType_ = "SLAM_PROBLEM" /\ lastOp = "SetOrdering") =>
        /\ \A v \in PoseVertices :
              ordering_id_[v] = SumDimension({ u \in PoseVertices : u < v })
        /\ ordering_poses_ = SumDimension(PoseVertices)
        /\ \A v \in LandmarkVertices :
              ordering_id_[v] = ordering_poses_
                                + SumDimension({ u \in LandmarkVertices : u < v })
        /\ ordering_landmarks_ = SumDimension(LandmarkVertices)
        /\ ordering_generic_ = ordering_poses_ + ordering_landmarks_
        /\ ordering_generic_ = SumDimension(verticies_)

\* C12: whatever the problem type and whatever the tag of a vertex, right after
\* SetOrdering every vertex of the graph has an ordering id in
\* [0, ordering_generic_) and its segment of delta_x_, the one UpdateStates
\* reads, lies inside the ordering_generic_ rows of the state vector.
C12_OrderingIdAssigned ==
    lastOp = "SetOrdering" =>
        \A v \in verticies_ :
            /\ ordering_id_[v] >= 0
            /\ ordering_id_[v] < ordering_generic_
            /\ ordering_id_[v] + LocalDimension(v) <= ordering_generic_

\* C13: in a SLAM problem, whatever AddVertex, RemoveVertex and
\* ExtendHessiansPriorSize calls came before, when SetOrdering has run (the
\* ordering under which the assembly folds the prior into H) the prior has
\* either no row or exactly ordering_poses_ rows.
C13_PriorRowsMatchPoses ==
    (problemType_ = "SLAM_PROBLEM" /\ lastOp = "SetOrdering") =>
        (H_prior_rows = 0 \/ H_prior_rows = ordering_poses_)

\* The fall of the cost during the outer iteration that OuterEnd closes: only
\* the last try of an iteration can be accepted, so the cost its UpdateStates
\* found is the cost the iteration started from.
CostDecrease == snap.chi - currentChi_

\* C14: the outer loop of SolveLM ends with an outer iteration exactly when the
\* cost fell by less than 1e-5 during it, or the norm of b_ is below 1e-5, or
\* iter has reached iterations, or all MaxFalseCnt tries of it were rejected;
\* so an iteration whose tries were all rejected is the last one, the first
\* iteration included.
C14_LMStopRule ==
    [][ (solve_pc = "outerEnd" /\ solveType = 0 /\ solve_pc' = "outer") =>
           ((stop' \/ iter' >= iterations)
            <=> \/ BelowEps(CostDecrease)
                \/ squaredNorm(b_) = 0
                \/ iter' >= iterations
                \/ false_cnt = MaxFalseCnt) ]_vars

\* C15: below the iteration cap, the outer loop of SolveDogLeg ends with an
\* outer iteration only if the cost fell by less than 1e-5 during it or the
\* norm of b_ is below 1e-5: an iteration, the first included, that lowered the
\* cost by 1e-5 or more and leaves a larger b_ is followed by another one.
C15_DogLegStopRule ==
    [][ (solve_pc = "outerEnd" /\ solveType = 1 /\ solve_pc' = "outer") =>
           ((stop' /\ iter' < iterations)
            => (BelowEps(CostDecrease) \/ squaredNorm(b_) = 0)) ]_vars

\* C16: a Marginalize call that runs to its end accumulates into H_marg and
\* b_marg every edge of the graph that is incident to any vertex of margVertexs,
\* not only those of the first one, so every edge the removal of the listed
\* vertices takes out of the graph is among the accumulated ones.
C16_MarginalizeAllIncidentEdges ==
    [][ (lastOp' = "Marginalize" /\ ~ub') =>
           /\ MargEdges(lastArg')
                 = { e \in edges_ : Range(lastArg') \cap VerticiesSet(e) # {} }
           /\ \A v \in Range(lastArg') :
                 (edges_ \cap RemoveVertexEdges(v)) \subseteq MargEdges(lastArg') ]_vars

\* Whether H and b hold nothing in the rows and columns of the fixed vertices.
FixedBlocksZero(H, b) ==
    \A v \in verticies_ \cap fixed_ : \A r \in DOMAIN H :
        (r >= ordering_id_[v] /\ r < ordering_id_[v] + LocalDimension(v)) =>
            /\ b[r] = 0
            /\ \A c \in DOMAIN H : H[r][c] = 0 /\ H[c][r] = 0

\* C17: an assembly, threaded or serial, leaves nothing in the rows and columns
\* of H and in the segment of b of a fixed vertex: no edge adds to a block whose
\* row or column vertex is fixed, and the prior's rows, columns and b segment of
\* a fixed pose vertex are folded in as zero.  No step of the assembly changes
\* the stored H_prior_ and b_prior_.
C17_FixedVerticesMasked ==
    /\ [](asm_pc = "joined" =>
            /\ FixedBlocksZero(Hessian_, b_)
            /\ FixedBlocksZero(MakeHessianSingle.H, MakeHessianSingle.b))
    /\ [][H_prior_' = H_prior_ /\ b_prior_' = b_prior_]_vars

\* A joined assembly of a SLAM problem whose pose vertex is fixed and whose
\* prior is not zero, with an edge term in the block of the free landmark.
C17_Witness ==
    /\ asm_pc = "joined"
    /\ problemType_ = "SLAM_PROBLEM"
    /\ \E v \in verticies_ \cap fixed_ : IsPoseVertex(v) /\ H_prior_[ordering_id_[v]][ordering_id_[v]] # 0
    /\ \E v \in verticies_ \ fixed_ : Hessian_[ordering_id_[v]][ordering_id_[v]] > 0

\* H(r, c) = H(c, r) on every pair of rows.
Symmetric(H) == \A r \in DOMAIN H : \A c \in DOMAIN H : H[r][c] = H[c][r]

\* C18: after every completed assembly, serial or threaded, the fold of the
\* masked prior included, H is symmetric; in the threaded assembly whatever the
\* interleaving of the workers.
C18_HessianSymmetric ==
    asm_pc = "joined" => (Symmetric(Hessian_) /\ Symmetric(MakeHessianSingle.H))

\* C19: in every assembly call, one that follows an earlier assembly after
\* edges were added or removed included, the positions 0 .. edges_.size() - 1
\* of the id list that the workers share out (worker k takes k, k + thd_num,
\* ...) hold exactly the ids of the current edge map, each once, so that no id
\* of a removed edge is looked up.
C19_AssemblyWalksCurrentEdges ==
    [][ (solve_pc \in {"assemble0", "assembleAcc"} /\ ~ub) =>
           /\ \A i \in 1..Cardinality(edges_) : edges_idx_'[i] \in edges_
           /\ \A e \in edges_ :
                 Cardinality({ i \in 1..Cardinality(edges_) : edges_idx_'[i] = e }) = 1 ]_vars

\* C20: in both drivers, whenever a linear solve starts, Hessian_ and b_ are
\* those of the last MakeHessian and the vertices hold the values that
\* MakeHessian linearized at: an accepted step is followed by a MakeHessian
\* before the next solve, a rejected one by the rollback of the vertices.
C20_SolveAtLinearizationPoint ==
    (solve_pc = "linear" /\ ~ub) =>
        /\ linearized.parameters = parameters_
        /\ linearized.H = Hessian_
        /\ linearized.b = b_

\* A linear solve about to start in the second outer iteration, after a step
\* was accepted in the first one and a step that moved the vertices was
\* rejected in this one.
C20_Witness ==
    /\ solve_pc = "linear" /\ ~ub
    /\ iter > 0 /\ false_cnt > 0
    /\ \E v \in verticies_ : parameters_[v] # ZeroVec(LocalDimension(v))
    /\ snap.parameters = parameters_
    /\ delta_x_ # ZeroVec(Rows(delta_x_)) /\ ~HasNaN(delta_x_)

\* Whether the LDLT factorization of the try at hand meets a zero pivot: the
\* matrix SolveLinearSystem or SolveDogLegStep factorizes is not positive definite.
LdltFails ==
    IF problemType_ = "GENERIC_PROBLEM"
    THEN ZeroPivot(Hessian_, IF solveType = 0 THEN currentLambda_ ELSE NoLambda, Rows(Hessian_))
    ELSE ZeroPivot(Hessian_, currentLambda_, ordering_poses_)

\* C21: a try whose LDLT factorization fails, or whose cost after the step is
\* not finite, is never accepted: the driver rejects it (it goes on to roll the
\* states back, currentChi_ keeps its value, SolveLM multiplies lambda by ni_ and
\* SolveDogLeg halves the radius), and the try does not end the process.
C21_IllConditionedRejected ==
    /\ [][ (solve_pc = "judge" /\ solve_pc' # "judge"
               /\ (LdltFails \/ ~isfinite(tempChi'))) =>
              /\ solve_pc' = "rollback" /\ ~oneStepSuccess'
              /\ currentChi_' = currentChi_
              /\ IF solveType = 0
                 THEN currentLambda_' = LMRejectLambda(currentLambda_, ni_)
                 ELSE currentRadius_' = ShrinkRadius(currentRadius_) ]_vars
    /\ [][ (solve_pc = "linear" /\ LdltFails) => solve_pc' # "aborted" ]_vars

\* C22: every SolveDogLegStep, in a GENERIC and in a SLAM problem and whatever
\* an earlier SolveLM has left in currentLambda_, computes h_gn_ from the
\* undamped system: on every row with a pivot, h_gn_ is b_ / Hessian_ with
\* nothing added to the diagonal.
C22_GaussNewtonUndamped ==
    [][ (solve_pc = "linear" /\ solveType = 1 /\ solve_pc' # "linear") =>
           \A i \in DOMAIN h_gn_' :
              (Hessian_[i][i] # 0 /\ h_gn_'[i] # NaN) =>
                 h_gn_'[i] = DivByDamped(b_[i], Hessian_[i][i], NoLambda) ]_vars

\* C23: the threaded assembly is fork-join with a barrier.  It has returned only
\* when every worker has made all of its accesses; the step that returns copies
\* multi_H_ and multi_b_ into Hessian_ and b_ with the prior folded in; and until
\* it returns Hessian_, b_, delta_x_ and all of the drivers' state stay as they
\* were: no solve, update or decision runs beside a worker.
C23_ForkJoinBarrier ==
    /\ [](asm_pc = "joined" =>
            \A t \in Workers : thd_ops[t] = << >> /\ thd_reg[t] = << >>)
    /\ [][ (asm_pc = "forked" /\ asm_pc' = "joined") =>
              /\ Hessian_' = FoldPriorH(multi_H_) /\ b_' = FoldPriorb(multi_b_)
              /\ UNCHANGED << multi_H_, multi_b_ >> ]_vars
    /\ [][ (asm_pc = "forked" /\ asm_pc' = "forked") =>
              UNCHANGED << Hessian_, b_, delta_x_, svars >> ]_vars

\* A returned assembly of two edges, which two workers added side by side: H
\* holds what they wrote, with the prior folded in.
C23_Witness ==
    /\ asm_pc = "joined" /\ ~ub
    /\ Cardinality(edges_) >= 2
    /\ \A t \in Workers : thd_ops[t] = << >>
    /\ \E r \in DOMAIN multi_H_ : multi_H_[r][r] > 0
    /\ Hessian_ = FoldPriorH(multi_H_)

\* 1 - (2 rho - 1)^3 for rho > 0, held within [0, 1]: below 0 for rho >= 1 and
\* above 1 for rho <= 1/2, which the clamp to [1/3, 2/3] does not tell from the
\* value itself.
NielsenCubic(rho) ==
    IF rho.den = 0 \/ rho.num >= rho.den THEN [num |-> 0, den |-> 1]
    ELSE IF 2 * rho.num <= rho.den THEN [num |-> 1, den |-> 1]
    ELSE Frac(rho.den ^ 3 - (2 * rho.num - rho.den) ^ 3, rho.den ^ 3)

\* lambda' = lambda * f as values.
LamIsTimesFrac(after, before, f) ==
    /\ after.exp = before.exp
    /\ after.num * before.den * f.den = before.num * f.num * after.den

\* C24: the damping law of SolveLM.  ComputeLambdaInitLM leaves ni_ = 2.  An
\* accepted try multiplies lambda by max(1/3, min(1 - (2 rho - 1)^3, 2/3)), which
\* lies in [1/3, 2/3], and sets ni_ to 2.  A rejected try multiplies lambda by
\* ni_ and then doubles ni_.  So after k rejections in a row since the last
\* accepted try, or since the start, ni_ = 2^(k + 1) and lambda is 2^(k (k + 1) / 2)
\* times what it was then.
C24_NielsenDamping ==
    /\ [][ (solve_pc = "init" /\ solveType = 0 /\ solve_pc' = "outer") => ni_' = 2 ]_vars
    /\ [][ (solve_pc = "judge" /\ solveType = 0 /\ solve_pc' = "assembleAcc") =>
              \E rho \in {Rho(tempChi', LMScale)} :
              \E f \in {FracMax([num |-> 1, den |-> 3],
                                FracMin(NielsenCubic(rho), [num |-> 2, den |-> 3]))} :
                 /\ ~FracLess(f, [num |-> 1, den |-> 3])
                 /\ ~FracLess([num |-> 2, den |-> 3], f)
                 /\ LamIsTimesFrac(currentLambda_', currentLambda_, f)
                 /\ ni_' = 2 ]_vars
    /\ [][ (solve_pc = "judge" /\ solveType = 0 /\ solve_pc' = "rollback") =>
              /\ currentLambda_'.num = currentLambda_.num
              /\ currentLambda_'.den = currentLambda_.den
              /\ 2 ^ (currentLambda_'.exp - currentLambda_.exp) = ni_
              /\ ni_' = 2 * ni_ ]_vars
    /\ [](solveType = 0 =>
            /\ ni_ = 2 ^ (sinceAccept.k + 1)
            /\ currentLambda_.num = sinceAccept.lambda.num
            /\ currentLambda_.den = sinceAccept.lambda.den
            /\ currentLambda_.exp =
                  sinceAccept.lambda.exp + (sinceAccept.k * (sinceAccept.k + 1)) \div 2)

\* A SolveLM that accepted a try with a factor of 1/3 or 2/3 and has rejected
\* three tries in a row since: ni_ = 16, lambda is 64 times what the accepted
\* try left.
C24_Witness ==
    /\ solveType = 0 /\ solve_pc = "rollback" /\ ~ub
    /\ sinceAccept.k = 3
    /\ sinceAccept.lambda.num > 0 /\ sinceAccept.lambda.den % 3 = 0
    /\ ni_ = 16 /\ currentLambda_.exp = sinceAccept.lambda.exp + 6

====
